---- MODULE Spec2Model ----
(***************************************************************************)
(* A model of fanvue-sync: the transaction ledger (TransactionStore), the  *)
(* rule engine (SyncEngine.compute_room_membership) and the two            *)
(* reconcilers (DiscordBot.sync_fanvue_roles, FanvueBot.enforce_room).     *)
(*                                                                         *)
(* It also models the upsell offers (DiscordBot.check_upsell, OfferStore),  *)
(* the Discord account links (DiscordOAuthClient), the paginated fetcher   *)
(* (FanvueClient) and the poll loop (DiscordBot.sync_loop).                *)
(*                                                                         *)
(* The specifications share the module, one per subsystem:                 *)
(*   SpecLedger     sync_earnings passes over the purchases ledger         *)
(*   SpecRules      compute_room_membership over upstream listings         *)
(*   SpecReconcile  role / room enforcement against a destination          *)
(*   SpecOffersSeq  check_upsell, one invocation at a time                 *)
(*   SpecOffers     check_upsell tasks interleaved at their awaits         *)
(*   SpecLinks      exchange_code, get_user_token, FanvueClient's token    *)
(*   SpecAutoJoin   auto_join_members_to_guild over linked fans            *)
(*   SpecLinkStates get_auth_url and callbacks with any state value        *)
(*   SpecFetch      _request and the paging loop of get_subscribers        *)
(*   SpecRuleFailures  compute_room_membership with failing reads          *)
(*   SpecPoll       sync_loop, cycle after cycle                           *)
(*   SpecLoops      the sync_loop tasks on_ready creates, side by side     *)
(*   SpecConverge   sync_loop with nothing changing and no call failing    *)
(*   SpecIdentity   links of two fans and the lookups in both directions   *)
(*   SpecCallers    get_user_token called by two callers side by side      *)
(*   SpecRequest    _request with its bearer header and its 429 sleeps     *)
(*   SpecSpendRuns  compute_room_membership run after run by one engine    *)
(*   SpecListRuns   the same for destinations naming one curated list      *)
(*   SpecPaging     get_subscribers against 200 and 429 answers only       *)
(*   SpecLinkedPoll sync_loop while fans complete the linking callback     *)
(*   SpecFailedFetch  sync_loop for a spending rule with failing insights  *)
(*   SpecRoomOrder  compute_room_membership over two destinations in order *)
(*   SpecRelink     get_user_token beside a new link of the same fan       *)
(* A specification leaves the variables of the other subsystems unchanged. *)
(***************************************************************************)
EXTENDS Integers, Sequences, FiniteSets, TLC

VARIABLES
    \* ---- TransactionStore (store.py)
    purchases,       \* rows of table purchases: [post_uuid, user_uuid, purchase_date]
    last_sync_date,  \* sync_state.last_sync_date (NoDate models NULL)
    pass,            \* the running / last sync_earnings call: its locals and outcome
    hist,            \* history of the event stream (not program state)
    \* ---- the upstream platform, as one poll's listings report it
    subscribers,     \* uuids of GET /subscribers
    subTop,          \* the subscriber records that carry isTopSpender
    followers,       \* uuids of GET /followers
    follTop,         \* the follower records that carry isTopSpender
    insights,        \* per uuid, the answer of GET /insights/fans/{uuid}
    lists,           \* per list cache key, the answer of the list-members read
    \* ---- SyncEngine (sync.py)
    config,          \* config['rooms']: the destinations in file order
    user_cache,      \* SyncEngine._user_cache
    list_cache,      \* SyncEngine._list_cache
    membership,      \* what the last compute_room_membership call returned
    \* ---- the destinations (a Discord guild with one managed role, a Matrix room)
    guildMembers,    \* account ids of the guild's members
    roleMembers,     \* role.members: the guild members that hold the role
    roomMembers,     \* the Matrix room's users
    rec,             \* what the last reconcile computed and called (for the claims)
    \* ---- OfferStore and the check_upsell tasks (offer_store.py, bot.py)
    sent_offers,     \* rows of table sent_offers: [user_id, entitlement_id]
    upsell,          \* per task, where its check_upsell call stands and its arguments
    dms,             \* per (user, sku), how many offer messages user.send delivered
    \* ---- DiscordOAuthClient (discord_oauth.py) and FanvueClient's token (client.py)
    discord_tokens,  \* rows of table discord_tokens, per fanvue_uuid
    now,             \* time.time(), in seconds
    client_token,    \* FanvueClient.access_token / refresh_token / token_expiry
    oauth,           \* the states handed out and the last token operation (for the claims)
    \* ---- FanvueClient's paging (client.py)
    fetch,           \* the running / last paged listing: its locals and outcome
    \* ---- DiscordBot.sync_loop (bot.py)
    poll,            \* where the poll loop stands
    \* ---- tasks of the event loop that run side by side (bot.py, discord_oauth.py)
    loops,           \* per sync_loop task on_ready created: its position and locals
    callers,         \* per caller of get_user_token: its position and locals
    \* ---- FanvueClient._request (client.py)
    request,         \* the running / last authenticated request: its locals
    \* ---- history of the runs of one engine (not program state)
    observed         \* the insights and lists upstream held when the last run was made

ledgerVars == <<purchases, last_sync_date, pass, hist>>
upstreamVars == <<subscribers, subTop, followers, follTop, insights, lists>>
engineVars == <<config, user_cache, list_cache, membership>>
destVars == <<guildMembers, roleMembers, roomMembers, rec>>
offerVars == <<sent_offers, upsell, dms>>
linkVars == <<discord_tokens, now, client_token, oauth>>
\* the variables the ledger, the engine and the reconcilers never touch
sideVars == <<callers, request, observed>>
taskVars == <<loops, sideVars>>
restVars == <<offerVars, linkVars, fetch, poll, taskVars>>
\* the ledger, the upstream, the engine and the destinations together
coreVars == <<ledgerVars, upstreamVars, engineVars, destVars>>

----------------------------------------------------------------------------
(* Bounds of the model. *)

\* the largest timestamp an upstream event carries (dates are 1..MaxDate)
MaxDate == 2
\* the most events one earnings stream yields in one pass
MaxEvents == 2
\* the most rules one destination's rule list holds
MaxRules == 2
\* the most accounts whose grant / revoke call fails in one reconcile
MaxFailing == 1

----------------------------------------------------------------------------
(* TransactionStore: values. *)

\* SQL NULL / Python None / the empty string of a date: all falsy in the code
NoDate == 0
\* a missing identifier: transaction.get('postUuid') is None, or no user / no 'uuid'
NoId == "none"

PostIds == {"p1"}
LedgerUsers == {"A", "B"}
Dates == 1..MaxDate

\* What the earnings stream can yield: any of the identifiers may be missing, the
\* date may be missing, and the local INSERT of the event may hit a sqlite3.Error.
Events ==
    [postUuid : PostIds \cup {NoId},
     user     : LedgerUsers \cup {NoId},
     date     : Dates \cup {NoDate},
     dbError  : BOOLEAN]

Max(a, b) == IF a >= b THEN a ELSE b

----------------------------------------------------------------------------
(* TransactionStore: operations. *)

\* INSERT OR REPLACE instead of INSERT OR IGNORE: the stored row is overwritten.
add_purchase_replace(purch, post_uuid, user_uuid, date_str, dbError) ==
    IF dbError
    THEN purch
    ELSE {r \in purch : ~(r.post_uuid = post_uuid /\ r.user_uuid = user_uuid)}
         \cup {[post_uuid |-> post_uuid, user_uuid |-> user_uuid,
                purchase_date |-> date_str]}

\* add_purchase: INSERT OR IGNORE under PRIMARY KEY (post_uuid, user_uuid); a
\* sqlite3.Error is logged and swallowed, nothing is inserted.
add_purchase(purch, post_uuid, user_uuid, date_str, dbError) ==
    IF dbError
    THEN purch
    ELSE IF \E r \in purch : r.post_uuid = post_uuid /\ r.user_uuid = user_uuid
         THEN purch
         ELSE purch \cup {[post_uuid |-> post_uuid, user_uuid |-> user_uuid,
                           purchase_date |-> date_str]}

\* get_unlockers: SELECT user_uuid FROM purchases WHERE post_uuid = ?
get_unlockers(purch, post_uuid) ==
    {r.user_uuid : r \in {q \in purch : q.post_uuid = post_uuid}}

\* max_date starting from nothing instead of from the stored cursor.
InitialMaxDateFromStart(last_sync) == NoDate

\* sync_earnings: max_date = last_sync
InitialMaxDate(last_sync) == last_sync

\* the newest date wins without being compared.
NewMaxDateLast(max_date, date_str) ==
    IF date_str # NoDate THEN date_str ELSE max_date

\* sync_earnings: if date_str: if not max_date or date_str > max_date: max_date = date_str
NewMaxDate(max_date, date_str) ==
    IF date_str # NoDate /\ (max_date = NoDate \/ date_str > max_date)
    THEN date_str
    ELSE max_date

\* sync_earnings, the locals at the start of a call
PassBegin(cursor) ==
    [pc |-> "syncing", last_sync |-> cursor, max_date |-> InitialMaxDate(cursor),
     count |-> 0, seen |-> 0, inserted |-> {}, ignored |-> FALSE,
     outcome |-> "running"]

\* Is the event skipped by one of the two `continue`s?
Skipped(e) == e.postUuid = NoId \/ e.user = NoId

\* Does the INSERT of e meet a stored row of its pair that carries another date?
\* (recorded in the pass as `ignored`, for the claims; the code keeps no such flag)
MeetsOtherRow(purch, e) ==
    /\ ~e.dbError
    /\ \E r \in purch : /\ r.post_uuid = e.postUuid
                        /\ r.user_uuid = e.user
                        /\ r.purchase_date # e.date

\* The dated event e of both identifiers whose INSERT hit a sqlite3.Error
\* (kept in hist.failed for the length of the pass, for the claims: the code
\* logs it and keeps nothing)
FailedInsert(e) ==
    IF ~Skipped(e) /\ e.dbError /\ e.date # NoDate
    THEN {[post_uuid |-> e.postUuid, user_uuid |-> e.user, purchase_date |-> e.date]}
    ELSE {}

\* sync_earnings, one turn of the for loop: the locals and the table after event e
PassStep(p, purch, e) ==
    IF Skipped(e)
    THEN [pass |-> [p EXCEPT !.seen = @ + 1], purchases |-> purch]
    ELSE LET after == add_purchase(purch, e.postUuid, e.user, e.date, e.dbError)
         IN  [pass |-> [p EXCEPT !.seen = @ + 1,
                                 !.count = @ + 1,
                                 !.max_date = NewMaxDate(@, e.date),
                                 !.inserted = @ \cup (after \ purch),
                                 !.ignored = @ \/ MeetsOtherRow(purch, e)],
              purchases |-> after]

\* the cursor written although the stream failed.
CursorOnFailureAdvance(p, cursor) == p.max_date

\* sync_earnings, except Exception: the error is logged, the cursor is not written
CursorOnFailure(p, cursor) == cursor

\* sync_earnings after the loop: if max_date and max_date != last_sync: update
CursorOnSuccess(p, cursor) ==
    IF p.max_date # NoDate /\ p.max_date # p.last_sync THEN p.max_date ELSE cursor

\* The whole of sync_earnings over a stream that yields evts and then, with
\* `fails`, raises: used where sync_earnings is one step of a longer handler.
RECURSIVE PassFold(_, _, _)
PassFold(p, purch, evts) ==
    IF evts = <<>>
    THEN [pass |-> p, purchases |-> purch]
    ELSE LET s == PassStep(p, purch, Head(evts))
         IN  PassFold(s.pass, s.purchases, Tail(evts))

sync_earnings(purch, cursor, evts, fails) ==
    LET s == PassFold(PassBegin(cursor), purch, evts)
    IN  [purchases |-> s.purchases,
         last_sync_date |-> IF fails THEN CursorOnFailure(s.pass, cursor)
                            ELSE CursorOnSuccess(s.pass, cursor),
         pass |-> [s.pass EXCEPT !.pc = "idle",
                                 !.outcome = IF fails THEN "failed" ELSE "ok"]]

----------------------------------------------------------------------------
(* TransactionStore: the state machine of SpecLedger. *)

IdlePass ==
    [pc |-> "idle", last_sync |-> NoDate, max_date |-> NoDate, count |-> 0,
     seen |-> 0, inserted |-> {}, ignored |-> FALSE, outcome |-> "none"]

\* _init_db: both tables empty, the cursor row (1, NULL)
StoreInit ==
    /\ purchases = {}
    /\ last_sync_date = NoDate
    /\ pass = IdlePass
    /\ hist = [maxObserved |-> NoDate, maxCompleted |-> NoDate, passMax |-> NoDate,
               failed |-> {}]

\* sync_earnings is entered: get_last_sync_date, max_date = last_sync, count = 0
SyncBegin ==
    /\ pass.pc = "idle"
    /\ pass' = PassBegin(last_sync_date)
    /\ hist' = [hist EXCEPT !.passMax = NoDate, !.failed = {}]
    /\ UNCHANGED <<purchases, last_sync_date>>
    /\ UNCHANGED <<upstreamVars, engineVars, destVars, restVars>>

\* the stream yields event e and the loop body runs on it
SyncEvent(e) ==
    /\ pass.pc = "syncing"
    /\ pass.seen < MaxEvents
    /\ LET s == PassStep(pass, purchases, e)
       IN  /\ pass' = s.pass
           /\ purchases' = s.purchases
    /\ hist' = [hist EXCEPT !.maxObserved = Max(@, e.date),
                            !.passMax = IF Skipped(e) THEN @ ELSE Max(@, e.date),
                            !.failed = @ \cup FailedInsert(e)]
    /\ UNCHANGED last_sync_date
    /\ UNCHANGED <<upstreamVars, engineVars, destVars, restVars>>

\* the stream raises (an upstream error on some page): except Exception
SyncFail ==
    /\ pass.pc = "syncing"
    /\ last_sync_date' = CursorOnFailure(pass, last_sync_date)
    /\ pass' = [pass EXCEPT !.pc = "idle", !.outcome = "failed"]
    /\ UNCHANGED <<purchases, hist>>
    /\ UNCHANGED <<upstreamVars, engineVars, destVars, restVars>>

\* the stream is exhausted: the cursor update after the loop
SyncEnd ==
    /\ pass.pc = "syncing"
    /\ last_sync_date' = CursorOnSuccess(pass, last_sync_date)
    /\ pass' = [pass EXCEPT !.pc = "idle", !.outcome = "ok"]
    /\ hist' = [hist EXCEPT !.maxCompleted = Max(@, hist.passMax)]
    /\ UNCHANGED purchases
    /\ UNCHANGED <<upstreamVars, engineVars, destVars, restVars>>

vars ==
    <<purchases, last_sync_date, pass, hist,
      subscribers, subTop, followers, follTop, insights, lists,
      config, user_cache, list_cache, membership,
      guildMembers, roleMembers, roomMembers, rec,
      sent_offers, upsell, dms,
      discord_tokens, now, client_token, oauth, fetch, poll,
      loops, callers, request, observed>>

NextLedger ==
    \/ SyncBegin
    \/ \E e \in Events : SyncEvent(e)
    \/ SyncFail
    \/ SyncEnd

----------------------------------------------------------------------------
(* SyncEngine: values. *)

Users == {"A", "B", "C"}
Aliases == {"vip", "fans"}

\* a key the configuration does not give (dict.get answers None)
Absent == "absent"

\* One rule object of the configuration, with the keys the engine reads.
Rule(type) ==
    [type |-> type, active_subscription |-> FALSE, min_lifetime_spend_cents |-> 0,
     content_id |-> NoId, list_uuid |-> NoId, list_type |-> "custom",
     on_expiry |-> Absent]

SubscriptionRule(active) == [Rule("subscription") EXCEPT !.active_subscription = active]
SpendingRule(floor) == [Rule("spending") EXCEPT !.min_lifetime_spend_cents = floor]
TopSpenderRule == Rule("top_spender")
UnlockRule(post) == [Rule("unlock") EXCEPT !.content_id = post]
ListRule(kind, id) == [Rule("fanvue_list") EXCEPT !.list_uuid = id, !.list_type = kind]

\* The three shapes of a destination's value in the configuration:
\*   "dict_rules"  {"rules": [...], "on_expiry": ...}
\*   "list"        [Rule1, Rule2]
\*   "single"      one rule object (rules holds that one object)
RoomConfig(shape, rules, on_expiry) ==
    [shape |-> shape, rules |-> rules, on_expiry |-> on_expiry]

\* the cache key f"{list_type}:{list_uuid}"
ListKey(list_type, list_uuid) == <<list_type, list_uuid>>
ListKeys == {ListKey("custom", "l1"), ListKey("smart", "l1")}

EmptyCache == [k \in {} |-> {}]

\* the insight the engine caches for a failed or 404 read: None
NoInsight == [found |-> FALSE, gross |-> 0]

----------------------------------------------------------------------------
(* SyncEngine: operations. *)

\* a fan whose insights could not be read taken for one who spent enough.
FetchInsightFailedQualifies(ins, u) ==
    IF ins[u].status = "ok" THEN [found |-> TRUE, gross |-> ins[u].gross]
    ELSE IF ins[u].status = "error" THEN [found |-> TRUE, gross |-> 5000]
    ELSE [found |-> FALSE, gross |-> 0]

\* _get_user_insights, the value cached for uuid u on a miss: the response's
\* body, or None when get_fan_insights raised or answered 404
FetchInsight(ins, u) ==
    IF ins[u].status = "ok" THEN [found |-> TRUE, gross |-> ins[u].gross] ELSE NoInsight

\* _get_user_insights over a set of uuids: the cache after they were looked up
CacheInsights(cache, ins, us) ==
    [u \in (DOMAIN cache) \cup us |->
        IF u \in DOMAIN cache THEN cache[u] ELSE FetchInsight(ins, u)]

\* _get_user_total_spend: 0 without insights, else spending.total.gross
UserTotalSpend(cache, u) == IF cache[u].found THEN cache[u].gross ELSE 0

\* _get_list_members: the cache after the list was looked up; a failed read
\* caches the empty set
CacheList(cache, ls, key) ==
    IF key \in DOMAIN cache
    THEN cache
    ELSE [k \in (DOMAIN cache) \cup {key} |->
            IF k \in DOMAIN cache THEN cache[k]
            ELSE IF ls[key].status = "ok" THEN ls[key].members ELSE {}]

\* all_users = subscribers + [f for f in followers if f['uuid'] not in subscriber_uuids]
AllUsers(D) == D.subscribers \cup (D.followers \ D.subscribers)

\* the records of all_users that carry isTopSpender: a subscriber's record wins
FlaggedTop(D) == D.subTop \cup (D.follTop \ D.subscribers)

\* The 'rules' the dispatch reads: the normalised rule list of the configuration.
RulesList(cfg) ==
    IF cfg.shape = "dict_rules" THEN cfg.rules
    ELSE IF cfg.shape = "list" THEN cfg.rules
    ELSE <<cfg.rules[1]>>

\* The dispatch on rule_type (the if / elif chain): the uuids it adds to the
\* destination, and the caches afterwards.
EvalRule(rule, D, ucache, lcache) ==
    IF rule.type = "subscription"
    THEN [matched |-> IF rule.active_subscription THEN D.subscribers ELSE {},
          user_cache |-> ucache, list_cache |-> lcache]
    ELSE IF rule.type = "spending"
    THEN LET c == CacheInsights(ucache, D.insights, AllUsers(D))
         IN  [matched |-> {u \in AllUsers(D) :
                              UserTotalSpend(c, u) >= rule.min_lifetime_spend_cents},
              user_cache |-> c, list_cache |-> lcache]
    ELSE IF rule.type = "top_spender"
    THEN [matched |-> FlaggedTop(D), user_cache |-> ucache, list_cache |-> lcache]
    ELSE IF rule.type = "unlock"
    THEN [matched |-> IF rule.content_id # NoId
                      THEN get_unlockers(D.purchases, rule.content_id) ELSE {},
          user_cache |-> ucache, list_cache |-> lcache]
    ELSE IF rule.type = "fanvue_list"
    THEN IF rule.list_uuid # NoId
         THEN LET key == ListKey(IF rule.list_type = "smart" THEN "smart" ELSE "custom",
                                 rule.list_uuid)
                  c == CacheList(lcache, D.lists, key)
              IN  [matched |-> c[key], user_cache |-> ucache, list_cache |-> c]
         ELSE [matched |-> {}, user_cache |-> ucache, list_cache |-> lcache]
    ELSE [matched |-> {}, user_cache |-> ucache, list_cache |-> lcache]

\* The inner loop `for rules in rules_list: rule_type = rules.get('type')`: the
\* loop body is that one assignment, so after the loop the locals hold the LAST
\* rule of the list, or what an earlier destination left when the list is empty.
LastRule(rules_list, carry) ==
    IF Len(rules_list) > 0
    THEN [bound |-> TRUE, rule |-> rules_list[Len(rules_list)]]
    ELSE carry

\* The loop over config['rooms'].items() (step 3): st holds the mapping, the
\* caches and the locals rules / rule_type carried from one turn to the next.
\* The dispatch follows the inner loop, once per destination; reading rule_type
\* before any rule assigned it raises (UnboundLocalError).
RECURSIVE EvalRooms(_, _, _)
EvalRooms(rooms, st, D) ==
    IF rooms = <<>> \/ st.status = "raised"
    THEN st
    ELSE LET room == Head(rooms)
             last == LastRule(RulesList(room.cfg), st.carry)
         IN  IF ~last.bound
             THEN [st EXCEPT !.status = "raised"]
             ELSE LET r == EvalRule(last.rule, D, st.user_cache, st.list_cache)
                  IN  EvalRooms(Tail(rooms),
                                [st EXCEPT !.carry = last,
                                           !.mapping[room.alias] = @ \cup r.matched,
                                           !.user_cache = r.user_cache,
                                           !.list_cache = r.list_cache],
                                D)

\* mapping = defaultdict(set): an alias is a key once a uuid was added for it
EmptyMapping == [a \in Aliases |-> {}]
MappingKeys(mapping) == {a \in Aliases : mapping[a] # {}}

NoResult == [status |-> "none", mapping |-> EmptyMapping]

\* compute_room_membership after the ledger refresh: the two listings (either
\* may raise, and the call raises with it), then the loop over the destinations.
EvalMembership(rooms, D, ucache, lcache, listingFails) ==
    IF listingFails
    THEN [status |-> "raised", mapping |-> EmptyMapping,
          user_cache |-> ucache, list_cache |-> lcache]
    ELSE LET st == EvalRooms(rooms,
                             [status |-> "ok", mapping |-> EmptyMapping,
                              carry |-> [bound |-> FALSE, rule |-> Rule(Absent)],
                              user_cache |-> ucache, list_cache |-> lcache],
                             D)
         IN  [status |-> st.status,
              mapping |-> IF st.status = "ok" THEN st.mapping ELSE EmptyMapping,
              user_cache |-> st.user_cache, list_cache |-> st.list_cache]

\* the snapshot one run evaluates its rules against
Snapshot(purch) ==
    [subscribers |-> subscribers, subTop |-> subTop, followers |-> followers,
     follTop |-> follTop, insights |-> insights, lists |-> lists,
     purchases |-> purch]

----------------------------------------------------------------------------
(* Upsell offers: OfferStore and DiscordBot.check_upsell. *)

\* the check_upsell calls that may be in flight at once
MaxTasks == 2
\* the most offer messages counted per (user, sku)
MaxSends == 2

OfferUsers == {"u1", "u2"}
\* config['upsell']['required_entitlement_ids'], and the virtual SKU of a boost
RequiredSkus == {"sku1"}
BoostSku == "SERVER_BOOST"
Skus == {"sku1", "sku2", BoostSku}
TaskIds == 1..MaxTasks

\* has_received_offer: SELECT 1 ... WHERE user_id = ? AND entitlement_id = ?
has_received_offer(rows, user_id, entitlement_id) ==
    \E r \in rows : r.user_id = user_id /\ r.entitlement_id = entitlement_id

\* record_offer: INSERT under PRIMARY KEY (user_id); a user that has a row makes
\* the INSERT fail, the sqlite3.Error is logged and nothing is stored
record_offer(rows, user_id, entitlement_id) ==
    IF \E r \in rows : r.user_id = user_id
    THEN rows
    ELSE rows \cup {[user_id |-> user_id, entitlement_id |-> entitlement_id]}

\* check_upsell: is_boost or is_eligible_sku
Eligible(sku_id) == sku_id = BoostSku \/ sku_id \in RequiredSkus

IdleTask == [pc |-> "idle", user |-> "none", sku |-> "none"]

\* OfferStore._init_db: the table empty; no call in flight, nothing sent
OffersInit ==
    /\ sent_offers = {}
    /\ upsell = [t \in TaskIds |-> IdleTask]
    /\ dms = [k \in OfferUsers \X Skus |-> 0]

\* check_upsell is entered (on_entitlement_create, on_member_update) and runs to
\* its first await: the SKU test and the has_received_offer guard
CheckUpsell(t, user_id, sku_id) ==
    /\ upsell[t].pc = "idle"
    /\ Eligible(sku_id)
    /\ ~has_received_offer(sent_offers, user_id, sku_id)
    /\ upsell' = [upsell EXCEPT ![t] = [pc |-> "fetch_user", user |-> user_id,
                                        sku |-> sku_id]]
    /\ UNCHANGED <<sent_offers, dms>>
    /\ UNCHANGED <<coreVars, taskVars, linkVars, fetch, poll>>

\* check_upsell returns at once: the SKU is not eligible or the guard finds a row
CheckUpsellDeclines(t, user_id, sku_id) ==
    /\ upsell[t].pc = "idle"
    /\ ~Eligible(sku_id) \/ has_received_offer(sent_offers, user_id, sku_id)
    /\ upsell' = [upsell EXCEPT ![t] = [pc |-> "declined", user |-> user_id,
                                        sku |-> sku_id]]
    /\ UNCHANGED <<sent_offers, dms>>
    /\ UNCHANGED <<coreVars, taskVars, linkVars, fetch, poll>>

\* await self.fetch_user returns: with the user, or without one (the call ends)
FetchUserReturns(t, found) ==
    /\ upsell[t].pc = "fetch_user"
    /\ upsell' = [upsell EXCEPT ![t].pc = IF found THEN "send" ELSE "ended"]
    /\ UNCHANGED <<sent_offers, dms>>
    /\ UNCHANGED <<coreVars, taskVars, linkVars, fetch, poll>>

\* await user.send returns: the message is delivered and record_offer runs
SendDelivered(t) ==
    /\ upsell[t].pc = "send"
    /\ dms[<<upsell[t].user, upsell[t].sku>>] < MaxSends
    /\ dms' = [dms EXCEPT ![<<upsell[t].user, upsell[t].sku>>] = @ + 1]
    /\ sent_offers' = record_offer(sent_offers, upsell[t].user, upsell[t].sku)
    /\ upsell' = [upsell EXCEPT ![t].pc = "sent"]
    /\ UNCHANGED <<coreVars, taskVars, linkVars, fetch, poll>>

\* await user.send raises: discord.Forbidden is logged, any other error leaves
\* the call; no message, no row
SendRaises(t) ==
    /\ upsell[t].pc = "send"
    /\ upsell' = [upsell EXCEPT ![t].pc = "ended"]
    /\ UNCHANGED <<sent_offers, dms>>
    /\ UNCHANGED <<coreVars, taskVars, linkVars, fetch, poll>>

\* the call is over; the task can take the next event
TaskDone(t) ==
    /\ upsell[t].pc \in {"declined", "ended", "sent"}
    /\ upsell' = [upsell EXCEPT ![t] = IdleTask]
    /\ UNCHANGED <<sent_offers, dms>>
    /\ UNCHANGED <<coreVars, taskVars, linkVars, fetch, poll>>

TaskStep(t) ==
    \/ \E u \in OfferUsers, sku \in Skus : CheckUpsell(t, u, sku)
    \/ \E u \in OfferUsers, sku \in Skus : CheckUpsellDeclines(t, u, sku)
    \/ \E found \in BOOLEAN : FetchUserReturns(t, found)
    \/ SendDelivered(t)
    \/ SendRaises(t)
    \/ TaskDone(t)

\* every invocation runs to its end before the next one starts
NextOffersSeq == TaskStep(1)

\* the invocations are tasks of one event loop, interleaved at their awaits
NextOffers == \E t \in TaskIds : TaskStep(t)

----------------------------------------------------------------------------
(* Account links: DiscordOAuthClient, and the token of FanvueClient. *)

\* the latest time the clock of the model reaches (seconds)
MaxClock == 60
\* the clock moves in steps of half a minute
Ticks == {30}

\* `time.time() > token_expiry - 60` of get_user_token
RefreshMargin == 60
\* `time.time() > self.token_expiry - 60` of FanvueClient._get_headers
ClientRefreshMargin == 60
\* token_data.get('expires_in', 604800) of the Discord token responses
DefaultExpiresIn == 604800
\* token_data.get('expires_in', 3600) of FanvueClient._update_tokens
ClientDefaultExpiresIn == 3600

LinkUuids == {"A", "B"}
\* discord_user['id'] of the account that authorised
LinkDiscordIds == {1, 2}
Nonces == {"n1", "n2"}
\* SQL NULL / None of a token column
NoToken == "none"

\* the token endpoint never answers with the access token it replaces
Mint(old) == IF old = "t1" THEN "t2" ELSE "t1"

\* a token response without the key expires_in
NoExpiresIn == -1

\* What the provider's token endpoint answers to a code or a refresh token:
\* ok = FALSE is a non-2xx answer (raise_for_status raises).
Grants ==
    [ok : {TRUE}, refresh_token : {Absent, "r1"}, expires_in : {NoExpiresIn, 30, 90, 660}]
    \cup {[ok |-> FALSE, refresh_token |-> Absent, expires_in |-> NoExpiresIn]}

\* _generate_state: base64(fanvue_uuid ":" base64(16 random bytes))
generate_state(fanvue_uuid, nonce) ==
    [b64 |-> TRUE, text |-> <<fanvue_uuid, nonce>>]

\* The state values a callback can carry: the ones _generate_state builds, the
\* base64 of any text somebody else wrote (a uuid, with or without anything
\* after a colon; an empty first field), and text that is no base64.
CallbackStates ==
    {generate_state(u, n) : u \in LinkUuids, n \in Nonces}
    \cup {[b64 |-> TRUE, text |-> <<u>>] : u \in LinkUuids \cup {""}}
    \cup {[b64 |-> FALSE, text |-> <<"%">>]}

\* _decode_state: decoded.split(':')[0], None when the decoding raises
decode_state(state) == IF state.b64 THEN state.text[1] ELSE NoId

NoRow == [linked |-> FALSE]

\* created_at overwritten with the time of the write.
store_tokens_new_created_at(rows, fanvue_uuid, discord_user_id, access_token, refresh_token, expires_in, t) ==
    [rows EXCEPT ![fanvue_uuid] =
        [linked |-> TRUE, discord_user_id |-> discord_user_id,
         access_token |-> access_token, refresh_token |-> refresh_token,
         token_expiry |-> t + expires_in, created_at |-> t, updated_at |-> t]]

\* _store_tokens: INSERT OR REPLACE, created_at = COALESCE(the row's, now)
store_tokens(rows, fanvue_uuid, discord_user_id, access_token, refresh_token, expires_in, t) ==
    [rows EXCEPT ![fanvue_uuid] =
        [linked |-> TRUE, discord_user_id |-> discord_user_id,
         access_token |-> access_token, refresh_token |-> refresh_token,
         token_expiry |-> t + expires_in,
         created_at |-> IF rows[fanvue_uuid].linked THEN rows[fanvue_uuid].created_at ELSE t,
         updated_at |-> t]]

\* token_data.get('expires_in', 604800)
ExpiresIn(grant) ==
    IF grant.expires_in = NoExpiresIn THEN DefaultExpiresIn ELSE grant.expires_in

\* the token refreshed only once it has expired.
NeedsRefreshWhenExpired(t, token_expiry) == t > token_expiry

\* get_user_token: if time.time() > token_expiry - 60
NeedsRefresh(t, token_expiry) == t > token_expiry - RefreshMargin

\* the stored token handed back when the refresh fails.
refresh_failed_returns_stored(rows, fanvue_uuid) ==
    [rows |-> rows, result |-> "token", access_token |-> rows[fanvue_uuid].access_token]

\* _refresh_user_token raises (no refresh token, or raise_for_status): nothing
\* is returned and nothing was written
refresh_failed(rows, fanvue_uuid) ==
    [rows |-> rows, result |-> "raised", access_token |-> NoToken]

\* _refresh_user_token
refresh_user_token(rows, fanvue_uuid, refresh_token, grant, t) ==
    IF refresh_token = NoToken \/ ~grant.ok
    THEN refresh_failed(rows, fanvue_uuid)
    ELSE LET access == Mint(rows[fanvue_uuid].access_token)
         IN  [rows |-> store_tokens(rows, fanvue_uuid, rows[fanvue_uuid].discord_user_id,
                                    access,
                                    IF grant.refresh_token = Absent THEN refresh_token
                                    ELSE grant.refresh_token,
                                    ExpiresIn(grant), t),
              result |-> "token", access_token |-> access]

\* get_user_token: None without a row; the stored token, or the refreshed one
get_user_token(rows, fanvue_uuid, grant, t) ==
    IF ~rows[fanvue_uuid].linked
    THEN [rows |-> rows, result |-> "none", access_token |-> NoToken,
          refreshed |-> FALSE]
    ELSE IF NeedsRefresh(t, rows[fanvue_uuid].token_expiry)
    THEN LET r == refresh_user_token(rows, fanvue_uuid,
                                     rows[fanvue_uuid].refresh_token, grant, t)
         IN  [rows |-> r.rows, result |-> r.result, access_token |-> r.access_token,
              refreshed |-> TRUE]
    ELSE [rows |-> rows, result |-> "token",
          access_token |-> rows[fanvue_uuid].access_token, refreshed |-> FALSE]

\* add_user_to_guild: the token, then PUT /guilds/{guild}/members/{id}: 201
\* joins, 204 is a member already, any other answer raises
add_user_to_guild(rows, guild, fanvue_uuid, grant, putFails, t) ==
    LET tok == get_user_token(rows, fanvue_uuid, grant, t)
    IN  IF tok.result = "none"
        THEN [rows |-> tok.rows, guild |-> guild, outcome |-> "no_token"]
        ELSE IF tok.result = "raised"
        THEN [rows |-> tok.rows, guild |-> guild, outcome |-> "token_raised"]
        ELSE LET id == rows[fanvue_uuid].discord_user_id
             IN  IF id \in guild
                 THEN [rows |-> tok.rows, guild |-> guild, outcome |-> "already"]
                 ELSE IF putFails
                 THEN [rows |-> tok.rows, guild |-> guild, outcome |-> "put_raised"]
                 ELSE [rows |-> tok.rows, guild |-> guild \cup {id},
                       outcome |-> "joined"]

\* auto_join_members_to_guild, the loop over all_entitled_uuids: every uuid in
\* its own try, an exception is logged and the loop goes on
RECURSIVE auto_join_loop(_, _, _, _, _)
auto_join_loop(order, st, grants, putFails, t) ==
    IF order = <<>>
    THEN st
    ELSE LET u == Head(order)
             r == add_user_to_guild(st.rows, st.guild, u, grants[u], u \in putFails, t)
         IN  auto_join_loop(Tail(order),
                            [rows |-> r.rows, guild |-> r.guild,
                             visited |-> Append(st.visited, u),
                             outcome |-> [st.outcome EXCEPT ![u] = r.outcome]],
                            grants, putFails, t)

NoOp == [op |-> "none"]

\* DiscordOAuthClient._init_db: no row; no state handed out
LinksInit ==
    /\ discord_tokens = [u \in LinkUuids |-> NoRow]
    /\ now = 0
    /\ oauth = [issued |-> {}, consumed |-> {}, last |-> NoOp]

\* FanvueClient.__init__: no token, token_expiry = 0
ClientInit ==
    client_token = [access_token |-> NoToken, refresh_token |-> NoToken,
                    token_expiry |-> 0]

\* time.time() moves on
Tick(d) ==
    /\ now + d <= MaxClock
    /\ now' = now + d
    /\ oauth' = [oauth EXCEPT !.last = NoOp]
    /\ UNCHANGED <<coreVars, taskVars, offerVars, discord_tokens, client_token, fetch, poll>>

\* get_auth_url: a new state for fanvue_uuid, remembered here only as history
GetAuthUrl(fanvue_uuid, nonce) ==
    /\ oauth' = [oauth EXCEPT !.issued = @ \cup {generate_state(fanvue_uuid, nonce)},
                              !.last = [op |-> "get_auth_url"]]
    /\ UNCHANGED <<coreVars, taskVars, offerVars, discord_tokens, now, client_token, fetch, poll>>

\* exchange_code(code, state): the uuid of the state, the code exchanged at the
\* provider (grant is its answer), the account the token belongs to (userOk is
\* whether /users/@me answers), the row written.
ExchangeCode(state, grant, userOk, discord_user_id) ==
    LET fanvue_uuid == decode_state(state)
        stored == fanvue_uuid \notin {NoId, ""} /\ grant.ok /\ userOk
    IN  /\ discord_tokens' =
               IF stored
               THEN store_tokens(discord_tokens, fanvue_uuid, discord_user_id,
                                 Mint(IF discord_tokens[fanvue_uuid].linked
                                      THEN discord_tokens[fanvue_uuid].access_token
                                      ELSE NoToken),
                                 IF grant.refresh_token = Absent THEN NoToken
                                 ELSE grant.refresh_token,
                                 ExpiresIn(grant), now)
               ELSE discord_tokens
        /\ oauth' = [oauth EXCEPT
               !.consumed = IF stored THEN @ \cup {state} ELSE @,
               !.last = [op |-> "exchange_code", state |-> state,
                         uuid |-> fanvue_uuid,
                         discord_user_id |-> IF stored THEN discord_user_id ELSE 0,
                         issued |-> state \in oauth.issued,
                         used |-> state \in oauth.consumed,
                         result |-> IF stored THEN "stored" ELSE "raised"]]
        /\ UNCHANGED <<coreVars, taskVars, offerVars, now, client_token, fetch, poll>>

\* get_user_token(fanvue_uuid); grant is the token endpoint's answer should
\* the refresh be asked for
GetUserToken(fanvue_uuid, grant) ==
    LET r == get_user_token(discord_tokens, fanvue_uuid, grant, now)
    IN  /\ discord_tokens' = r.rows
        /\ oauth' = [oauth EXCEPT !.last =
               [op |-> "get_user_token", uuid |-> fanvue_uuid,
                before |-> discord_tokens[fanvue_uuid], granted |-> grant.ok,
                refreshed |-> r.refreshed,
                result |-> r.result, access_token |-> r.access_token]]
        /\ UNCHANGED <<coreVars, taskVars, offerVars, now, client_token, fetch, poll>>

\* auto_join_members_to_guild(membership): order is the order the set
\* all_entitled_uuids is iterated in
AutoJoin(order, grants, putFails) ==
    LET r == auto_join_loop(order,
                            [rows |-> discord_tokens, guild |-> guildMembers,
                             visited |-> <<>>,
                             outcome |-> [u \in LinkUuids |-> "not_called"]],
                            grants, putFails, now)
    IN  /\ discord_tokens' = r.rows
        /\ guildMembers' = r.guild
        /\ oauth' = [oauth EXCEPT !.last =
               [op |-> "auto_join", order |-> order,
                before |-> discord_tokens, guild |-> guildMembers,
                granted |-> [u \in LinkUuids |-> grants[u].ok],
                putFails |-> putFails,
                visited |-> r.visited, outcome |-> r.outcome]]
        /\ UNCHANGED <<ledgerVars, upstreamVars, engineVars, roleMembers, roomMembers,
                       rec, offerVars, now, client_token, fetch, poll, taskVars>>

\* FanvueClient._update_tokens
update_tokens(token_data, t) ==
    [access_token |-> token_data.access_token,
     refresh_token |-> IF token_data.refresh_token = Absent THEN NoToken
                       ELSE token_data.refresh_token,
     token_expiry |-> t + (IF token_data.expires_in = NoExpiresIn
                           THEN ClientDefaultExpiresIn ELSE token_data.expires_in)]

\* the token refreshed only once it has expired.
ClientNeedsRefreshWhenExpired(t, token_expiry) == t > token_expiry

\* FanvueClient._get_headers: if time.time() > self.token_expiry - 60
ClientNeedsRefresh(t, token_expiry) == t > token_expiry - ClientRefreshMargin

\* FanvueClient.exchange_code
ClientExchangeCode(grant) ==
    /\ client_token' =
           IF grant.ok
           THEN update_tokens([access_token |-> Mint(client_token.access_token),
                               refresh_token |-> grant.refresh_token,
                               expires_in |-> grant.expires_in], now)
           ELSE client_token
    /\ oauth' = [oauth EXCEPT !.last = [op |-> "client_exchange_code"]]
    /\ UNCHANGED <<coreVars, taskVars, offerVars, discord_tokens, now, fetch, poll>>

\* FanvueClient._get_headers, with _refresh_token
ClientGetHeaders(grant) ==
    LET refresh == ClientNeedsRefresh(now, client_token.token_expiry)
        raised == refresh /\ (client_token.refresh_token = NoToken \/ ~grant.ok)
        after == IF refresh /\ ~raised
                 THEN update_tokens([access_token |-> Mint(client_token.access_token),
                                     refresh_token |-> grant.refresh_token,
                                     expires_in |-> grant.expires_in], now)
                 ELSE client_token
    IN  /\ client_token' = after
        /\ oauth' = [oauth EXCEPT !.last =
               [op |-> "get_headers", before |-> client_token,
                refreshed |-> refresh,
                result |-> IF raised THEN "raised" ELSE "headers",
                access_token |-> IF raised THEN NoToken ELSE after.access_token]]
        /\ UNCHANGED <<coreVars, taskVars, offerVars, discord_tokens, now, fetch, poll>>

----------------------------------------------------------------------------
(* The fetcher: FanvueClient._request and the paging loop of get_subscribers
   (get_followers and get_earnings have the same loop). An item stands for
   the page it is on. *)

\* the pages the upstream has at most
MaxPages == 3
\* the 429 answers one call of get_subscribers gets at most
MaxRetries == 2

\* int(response.headers.get("Retry-After", 5)) with no such header
DefaultRetryAfter == 5

\* The Retry-After header of a 429: missing, a number of seconds, a negative
\* number, or an HTTP date.
RetryAfterHeaders == {Absent, "2", "-3", "Wed, 21 Oct 2015 07:28:00 GMT"}

\* the headers int() accepts, with what it returns
IntOf == [h \in {"2", "-3"} |-> IF h = "2" THEN 2 ELSE -3]

\* int(response.headers.get("Retry-After", 5)); time.sleep(retry_after + 1):
\* int raises ValueError for text that is no integer, time.sleep raises
\* ValueError for a negative length
RetryAfter(h) ==
    IF h = Absent THEN [ok |-> TRUE, sleep |-> DefaultRetryAfter + 1]
    ELSE IF h \notin DOMAIN IntOf THEN [ok |-> FALSE, sleep |-> 0]
    ELSE IF IntOf[h] + 1 < 0 THEN [ok |-> FALSE, sleep |-> 0]
    ELSE [ok |-> TRUE, sleep |-> IntOf[h] + 1]

\* the statuses raise_for_status raises for, 429 apart
ErrorStatuses == {404, 500}

Entry(page, status) == [page |-> page, status |-> status]

\* the failed page skipped and the loop going on.
on_error_skip_page(f) ==
    IF f.page < MaxPages
    THEN [f EXCEPT !.page = @ + 1]
    ELSE [f EXCEPT !.pc = "done"]

\* response.raise_for_status() raises out of the generator
on_error(f) == [f EXCEPT !.pc = "raised"]

\* no call of get_subscribers made yet
NoFetch ==
    [pc |-> "idle", page |-> 0, yielded |-> <<>>, log |-> <<>>, slept |-> <<>>]

\* get_subscribers(): page = 1, up to the first request
GetSubscribers ==
    /\ fetch.pc \in {"idle", "done", "raised"}
    /\ fetch' = [NoFetch EXCEPT !.pc = "request", !.page = 1]
    /\ UNCHANGED <<coreVars, taskVars, offerVars, linkVars, poll>>

\* _request: _get_headers raises (the refresh failed) before anything is sent
HeadersRaise ==
    /\ fetch.pc = "request"
    /\ fetch' = [fetch EXCEPT !.pc = "raised"]
    /\ UNCHANGED <<coreVars, taskVars, offerVars, linkVars, poll>>

\* a 200: the items of the page are yielded, then page += 1 or the end
Respond200(hasMore) ==
    /\ fetch.pc = "request"
    /\ hasMore => fetch.page < MaxPages
    /\ fetch' = [fetch EXCEPT
                   !.log = Append(@, Entry(fetch.page, 200)),
                   !.yielded = Append(@, fetch.page),
                   !.page = IF hasMore THEN @ + 1 ELSE @,
                   !.pc = IF hasMore THEN "request" ELSE "done"]
    /\ UNCHANGED <<coreVars, taskVars, offerVars, linkVars, poll>>

\* a 429: sleep and send the same request again, or, when int() or sleep()
\* raised ValueError, `pass` and `return response` to raise_for_status
Respond429(h) ==
    /\ fetch.pc = "request"
    /\ Cardinality({i \in DOMAIN fetch.log : fetch.log[i].status = 429}) < MaxRetries
    /\ LET logged == [fetch EXCEPT !.log = Append(@, Entry(fetch.page, 429))]
       IN  fetch' = IF RetryAfter(h).ok
                    THEN [logged EXCEPT !.slept = Append(@, RetryAfter(h).sleep)]
                    ELSE on_error(logged)
    /\ UNCHANGED <<coreVars, taskVars, offerVars, linkVars, poll>>

\* any other 4xx or 5xx: _request returns it, raise_for_status raises
RespondError(status) ==
    /\ fetch.pc = "request"
    /\ fetch' = on_error([fetch EXCEPT !.log = Append(@, Entry(fetch.page, status))])
    /\ UNCHANGED <<coreVars, taskVars, offerVars, linkVars, poll>>

NextFetch ==
    \/ GetSubscribers
    \/ HeadersRaise
    \/ \E hasMore \in BOOLEAN : Respond200(hasMore)
    \/ \E h \in RetryAfterHeaders : Respond429(h)
    \/ \E status \in ErrorStatuses : RespondError(status)

----------------------------------------------------------------------------
(* The sync_loop tasks of the event loop. *)

\* the times on_ready fires while the process lives
MaxLoops == 2
LoopIds == 1..MaxLoops

\* no task with this id was created
NoLoop == [pc |-> "none", to_add |-> {}, to_remove |-> {}]

\* no on_ready yet
TasksIdle == loops = [t \in LoopIds |-> NoLoop]

\* The callers of get_user_token for one fan, running side by side
CallerIds == {1, 2}

\* a caller that has not called: no locals
NoCall == [pc |-> "idle", discord_user_id |-> 0, access_token |-> NoToken,
           refresh_token |-> NoToken, grant_refresh_token |-> NoToken,
           expires_in |-> 0, result |-> "none"]

\* no request made yet: no header built, nothing sent
NoRequest == [pc |-> "idle", bearer |-> NoToken, bearer_expiry |-> 0,
              sent |-> FALSE, at |-> 0, retries |-> 0]

SideIdle ==
    /\ callers = [c \in CallerIds |-> NoCall]
    /\ request = NoRequest
    /\ observed = [insights |-> [u \in Users |-> [status |-> "none", gross |-> 0]],
                    lists |-> [k \in ListKeys |-> [status |-> "none", members |-> {}]]]

----------------------------------------------------------------------------
(* The states the subsystems are in when a specification does not run them. *)

UpstreamIdle ==
    /\ subscribers = {} /\ subTop = {} /\ followers = {} /\ follTop = {}
    /\ insights = [u \in Users |-> [status |-> "notfound", gross |-> 0]]
    /\ lists = [k \in ListKeys |-> [status |-> "ok", members |-> {}]]

\* SyncEngine.__init__: both caches empty
EngineInit ==
    /\ user_cache = EmptyCache
    /\ list_cache = EmptyCache
    /\ membership = NoResult

NoRec == [kind |-> "none", adapter |-> "none"]

DestIdle ==
    /\ guildMembers = {} /\ roleMembers = {} /\ roomMembers = {}
    /\ rec = NoRec

\* FanvueClient between calls: no request in flight
FetchIdle == fetch = NoFetch

\* sync_loop not started
PollIdle == poll = [pc |-> "idle"]

RestIdle == OffersInit /\ LinksInit /\ ClientInit /\ FetchIdle /\ PollIdle /\ TasksIdle /\ SideIdle

----------------------------------------------------------------------------
(* SpecLedger: sync_earnings called pass after pass. *)

LedgerInit ==
    /\ StoreInit
    /\ UpstreamIdle
    /\ EngineInit /\ config = <<>>
    /\ DestIdle
    /\ RestIdle

SpecLedger == LedgerInit /\ [][NextLedger]_vars

----------------------------------------------------------------------------
(* SpecRules: compute_room_membership over one poll's listings. *)

\* the rules a destination of SpecRules is configured from
RuleChoices ==
    {SubscriptionRule(TRUE), SubscriptionRule(FALSE), TopSpenderRule,
     SpendingRule(5000), UnlockRule("p1"), ListRule("custom", "l1")}

RuleLists == UNION {[1..n -> RuleChoices] : n \in 0..MaxRules}

RoomConfigs ==
    {RoomConfig("dict_rules", rl, Absent) : rl \in RuleLists}
    \cup {RoomConfig("list", rl, Absent) : rl \in RuleLists}
    \cup {RoomConfig("single", <<r>>, Absent) : r \in RuleChoices}

\* the earnings streams the ledger refresh of a run may read
RuleStreams ==
    {<<>>, <<[postUuid |-> "p1", user |-> "A", date |-> 1, dbError |-> FALSE]>>}

\* the uuids the two listings of SpecRules draw from ("B" may be in both)
SubscriberPool == {"A", "B"}
FollowerPool == {"B", "C"}

RulesInit ==
    /\ StoreInit
    /\ subscribers \in SUBSET SubscriberPool
    /\ followers \in SUBSET FollowerPool
    /\ subTop \in SUBSET subscribers
    /\ follTop \in SUBSET followers
    /\ insights = [u \in Users |->
                     IF u = "A" THEN [status |-> "ok", gross |-> 4000]
                     ELSE IF u = "B" THEN [status |-> "ok", gross |-> 5000]
                     ELSE [status |-> "notfound", gross |-> 0]]
    /\ lists = [k \in ListKeys |-> [status |-> "ok", members |-> {"B"}]]
    /\ EngineInit
    /\ \E c \in RoomConfigs : config = <<[alias |-> "vip", cfg |-> c]>>
    /\ DestIdle
    /\ RestIdle

\* compute_room_membership: the ledger refresh (_sync_transactions), the two
\* listings, the rules of every destination.
ComputeRoomMembership(evts, fails, listingFails) ==
    LET s == sync_earnings(purchases, last_sync_date, evts, fails)
        r == EvalMembership(config, Snapshot(s.purchases), user_cache, list_cache,
                            listingFails)
    IN  /\ purchases' = s.purchases
        /\ last_sync_date' = s.last_sync_date
        /\ user_cache' = r.user_cache
        /\ list_cache' = r.list_cache
        /\ membership' = [status |-> r.status, mapping |-> r.mapping]
        /\ UNCHANGED <<pass, hist, config, upstreamVars, destVars, restVars>>

NextRules ==
    \E evts \in RuleStreams, fails \in BOOLEAN, listingFails \in BOOLEAN :
        ComputeRoomMembership(evts, fails, listingFails)

SpecRules == RulesInit /\ [][NextRules]_vars


----------------------------------------------------------------------------
(* The reconcilers: values. *)

\* self.user.id of the Discord bot, and the accounts of the guild besides it
ServiceDiscordId == 9
DiscordIds == {1, 2, 3, ServiceDiscordId}

\* config['matrix']['user_id'] of the Matrix bot, and the other accounts
ServiceMxid == "@bot"
Mxids == {"@a", "@b", "@w", ServiceMxid}

\* discord_addressbook.yaml: uuid -> the ids as the file spells them, a number
\* or its decimal string; account 3 belongs to no uuid
DiscordAddressBook ==
    [u \in Users |->
        IF u = "A" THEN {[form |-> "str", n |-> 1]}
        ELSE IF u = "B" THEN {[form |-> "int", n |-> 2]}
        ELSE {[form |-> "int", n |-> ServiceDiscordId]}]

\* addressbook.yaml of the Matrix deployment; "@w" belongs to no uuid
MatrixAddressBook ==
    [u \in Users |->
        IF u = "A" THEN {"@a"} ELSE IF u = "B" THEN {"@b"} ELSE {ServiceMxid}]

\* int(x) of an address-book id
ToInt(x) == x.n

\* the values of an on_expiry key in the destinations of SpecReconcile
OnExpiryValues == {Absent, "kick", "ignore"}

\* the calls of one run that fail: at most MaxFailing ids of S
Failing(S) == {F \in SUBSET S : Cardinality(F) <= MaxFailing}

\* every order in which a loop may visit the elements of a set
Orders(S) ==
    {f \in [1..Cardinality(S) -> S] : \A i, j \in 1..Cardinality(S) : f[i] = f[j] => i = j}

----------------------------------------------------------------------------
(* DiscordBot.sync_fanvue_roles, for one role of the mapping. *)

\* role_config.get('on_expiry', default) by the configuration's shape: a dict
\* answers its own key, a list the key of its first item
ConfiguredExpiry(cfg, default) ==
    LET own == IF cfg.shape = "dict_rules" THEN cfg.on_expiry
               ELSE IF cfg.shape = "single" THEN cfg.rules[1].on_expiry
               ELSE IF Len(cfg.rules) > 0 THEN cfg.rules[1].on_expiry
               ELSE Absent
    IN  IF own = Absent THEN default ELSE own

\* 'ignore' treated like every other value: the role is removed.
DiscordExpiryOpNoIgnore(action) ==
    IF action = "kick" THEN "kick" ELSE "remove_roles"

\* if action == 'kick' ... elif action == 'ignore' ... else (remove_role)
DiscordExpiryOp(action) ==
    IF action = "kick" THEN "kick"
    ELSE IF action = "ignore" THEN "log"
    ELSE "remove_roles"

\* discord_ids over the entitled uuids, then target_ids = {int(x) for x in discord_ids}
DiscordTargetIds(entitled) ==
    {ToInt(x) : x \in UNION {DiscordAddressBook[u] : u \in entitled}}

\* `for uid in to_add`: get_member, add_roles; a raising call leaves the loop
\* and the rest of the role's block (the try spans the whole block)
RECURSIVE DiscordGrants(_, _, _)
DiscordGrants(order, st, failing) ==
    IF order = <<>> \/ st.aborted
    THEN st
    ELSE LET uid == Head(order)
         IN  IF uid \notin st.guild
             THEN DiscordGrants(Tail(order), st, failing)
             ELSE IF uid \in failing
             THEN [st EXCEPT !.grantCalls = @ \cup {uid},
                             !.failedCalls = @ \cup {uid},
                             !.aborted = TRUE]
             ELSE DiscordGrants(Tail(order),
                                [st EXCEPT !.grantCalls = @ \cup {uid},
                                           !.role = @ \cup {uid}],
                                failing)

\* `for uid in to_remove`: get_member, the expiry policy of the role
RECURSIVE DiscordExpiries(_, _, _, _)
DiscordExpiries(order, st, failing, op) ==
    IF order = <<>> \/ st.aborted
    THEN st
    ELSE LET uid == Head(order)
         IN  IF uid \notin st.guild
             THEN DiscordExpiries(Tail(order), st, failing, op)
             ELSE IF op = "log"
             THEN DiscordExpiries(Tail(order),
                                  [st EXCEPT !.handled = @ \cup {uid},
                                             !.logs = @ \cup {uid}],
                                  failing, op)
             ELSE IF uid \in failing
             THEN [st EXCEPT !.handled = @ \cup {uid},
                             !.revokeCalls = @ \cup {<<uid, op>>},
                             !.failedCalls = @ \cup {uid},
                             !.aborted = TRUE]
             ELSE DiscordExpiries(Tail(order),
                                  [st EXCEPT !.handled = @ \cup {uid},
                                             !.revokeCalls = @ \cup {<<uid, op>>},
                                             !.role = @ \ {uid},
                                             !.guild = IF op = "kick" THEN @ \ {uid} ELSE @],
                                  failing, op)

\* what a reconcile records of itself when the destination was not found
Unresolved(kind, entitled) ==
    [kind |-> kind, resolved |-> FALSE, entitled |-> entitled, target |-> {},
     actual |-> {}, toAdd |-> {}, toRemove |-> {}, action |-> Absent,
     grantCalls |-> {}, handled |-> {}, revokeCalls |-> {}, logs |-> {},
     failedCalls |-> {}, aborted |-> FALSE, skipped |-> {}, repeat |-> FALSE]

\* every target is granted again, the role's holders included.
DiscordToAddAll(target_ids, current) == target_ids

\* the diff as the role's block computes it
DiscordToAdd(target_ids, current) == target_ids \ current
DiscordToRemove(target_ids, current) == current \ target_ids

\* One role's block of sync_fanvue_roles: the guild, the role's members and the
\* record of the run afterwards.
DiscordRole(entitled, cfg, guild, role, found, addOrder, rmOrder, failing) ==
    IF ~found
    THEN [guild |-> guild, role |-> role, rec |-> Unresolved("discord", entitled)]
    ELSE LET target_ids == DiscordTargetIds(entitled)
             to_add == DiscordToAdd(target_ids, role)
             to_remove == DiscordToRemove(target_ids, role)
             action == ConfiguredExpiry(cfg, "remove_role")
             st0 == [guild |-> guild, role |-> role, grantCalls |-> {},
                     handled |-> {}, revokeCalls |-> {}, logs |-> {},
                     failedCalls |-> {}, aborted |-> FALSE]
             st1 == DiscordGrants(addOrder, st0, failing)
             st2 == DiscordExpiries(rmOrder, st1, failing, DiscordExpiryOp(action))
         IN  [guild |-> st2.guild, role |-> st2.role,
              rec |-> [kind |-> "discord", resolved |-> TRUE, entitled |-> entitled,
                       target |-> target_ids, actual |-> role,
                       toAdd |-> to_add, toRemove |-> to_remove, action |-> action,
                       grantCalls |-> st2.grantCalls, handled |-> st2.handled,
                       revokeCalls |-> st2.revokeCalls, logs |-> st2.logs,
                       failedCalls |-> st2.failedCalls, aborted |-> st2.aborted,
                       skipped |-> to_add \ guild, repeat |-> FALSE]]

----------------------------------------------------------------------------
(* FanvueBot.enforce_room, with the uuid -> mxid mapping of main. *)

\* main, step 2: final_mapping[room_alias] over the address book
MatrixAllowed(entitled) == UNION {MatrixAddressBook[u] : u \in entitled}

\* current_members.discard(self.user_id)
MatrixCurrent(members) == members \ {ServiceMxid}

\* if action == 'ignore': to_kick = set()
MatrixKickSet(action, to_kick) == IF action = "ignore" THEN {} ELSE to_kick

\* enforce_room: invite_user and kick_user catch and log their own failures,
\* so every id of both sets is called
MatrixRoom(entitled, cfg, members, found, failing) ==
    IF ~found
    THEN [room |-> members, rec |-> Unresolved("matrix", entitled)]
    ELSE LET allowed == MatrixAllowed(entitled)
             current == MatrixCurrent(members)
             to_invite == allowed \ current
             to_kick == current \ allowed
             action == ConfiguredExpiry(cfg, "kick")
             kicks == MatrixKickSet(action, to_kick)
         IN  [room |-> (members \cup (to_invite \ failing)) \ (kicks \ failing),
              rec |-> [kind |-> "matrix", resolved |-> TRUE, entitled |-> entitled,
                       target |-> allowed, actual |-> current,
                       toAdd |-> to_invite, toRemove |-> to_kick, action |-> action,
                       grantCalls |-> to_invite, handled |-> to_kick,
                       revokeCalls |-> {<<m, "kick">> : m \in kicks},
                       logs |-> IF action = "ignore" THEN to_kick ELSE {},
                       failedCalls |-> (to_invite \cup kicks) \cap failing,
                       aborted |-> FALSE, skipped |-> {}, repeat |-> FALSE]]

----------------------------------------------------------------------------
(* SpecReconcile: one destination, reconciled poll after poll.  The entitled   *)
(* uuids of the destination are what compute_room_membership returned for it; *)
(* only aliases the mapping holds are reconciled, so the set is never empty.   *)

ExpiryRules == {[Rule("subscription") EXCEPT !.on_expiry = v] : v \in OnExpiryValues}

ExpiryConfigs ==
    {RoomConfig("dict_rules", <<Rule("subscription")>>, v) : v \in OnExpiryValues}
    \cup {RoomConfig("list", <<>>, Absent)}
    \cup {RoomConfig("list", <<r, Rule("top_spender")>>, Absent) : r \in ExpiryRules}
    \cup {RoomConfig("single", <<r>>, Absent) : r \in ExpiryRules}

ReconcileInit ==
    /\ StoreInit
    /\ UpstreamIdle
    /\ EngineInit
    /\ \E c \in ExpiryConfigs : config = <<[alias |-> "vip", cfg |-> c]>>
    /\ \/ /\ guildMembers \in {g \in SUBSET DiscordIds : ServiceDiscordId \in g}
          /\ roleMembers \in SUBSET guildMembers
          /\ roomMembers = {}
          /\ rec = [kind |-> "none", adapter |-> "discord"]
       \/ /\ roomMembers \in {m \in SUBSET Mxids : ServiceMxid \in m}
          /\ guildMembers = {} /\ roleMembers = {}
          /\ rec = [kind |-> "none", adapter |-> "matrix"]
    /\ RestIdle

Adapter == IF rec.kind = "none" THEN rec.adapter ELSE rec.kind

\* the run before made every call of its diff and none of them failed
RunWentThrough(r) ==
    /\ r.kind # "none" /\ r.resolved
    /\ r.failedCalls = {} /\ ~r.aborted
    /\ r.skipped = {}
    /\ (r.kind = "matrix" => ServiceMxid \notin r.target)

\* Is a run over `entitled` the second of two in a row: the run before was over
\* the same uuids, went through, and had calls to make?  (kept in the record as
\* `repeat`, for the claims)
Repeats(entitled) ==
    /\ RunWentThrough(rec)
    /\ rec.entitled = entitled
    /\ rec.grantCalls \cup rec.handled # {}

\* sync_fanvue_roles reaches the role's block with the entitled uuids
SyncFanvueRoles(entitled, failing) ==
    /\ Adapter = "discord"
    /\ entitled # {}
    \* only a call the run makes can fail
    /\ failing \subseteq (DiscordTargetIds(entitled) \cup roleMembers) \cap guildMembers
    /\ LET target_ids == DiscordTargetIds(entitled)
       IN  \E addOrder \in Orders(DiscordToAdd(target_ids, roleMembers)),
              rmOrder \in Orders(DiscordToRemove(target_ids, roleMembers)) :
              LET r == DiscordRole(entitled, config[1].cfg, guildMembers, roleMembers,
                                   TRUE, addOrder, rmOrder, failing)
              IN  /\ guildMembers' = r.guild
                  /\ roleMembers' = r.role
                  /\ rec' = [r.rec EXCEPT !.repeat = Repeats(entitled)]
    /\ UNCHANGED <<roomMembers, ledgerVars, upstreamVars, engineVars, restVars>>

\* sync_fanvue_roles does not find the role in the guild: warning, continue
SyncFanvueRolesNoRole(entitled) ==
    /\ Adapter = "discord"
    /\ entitled # {}
    /\ LET r == DiscordRole(entitled, config[1].cfg, guildMembers, roleMembers,
                            FALSE, <<>>, <<>>, {})
       IN  /\ guildMembers' = r.guild
           /\ roleMembers' = r.role
           /\ rec' = [r.rec EXCEPT !.repeat = Repeats(entitled)]
    /\ UNCHANGED <<roomMembers, ledgerVars, upstreamVars, engineVars, restVars>>

\* main maps the entitled uuids and calls enforce_room
EnforceRoom(entitled, failing) ==
    /\ Adapter = "matrix"
    /\ entitled # {}
    \* only a call the run makes can fail
    /\ failing \subseteq MatrixAllowed(entitled) \cup roomMembers
    /\ LET r == MatrixRoom(entitled, config[1].cfg, roomMembers, TRUE, failing)
       IN  /\ roomMembers' = r.room
           /\ rec' = [r.rec EXCEPT !.repeat = Repeats(entitled)]
    /\ UNCHANGED <<guildMembers, roleMembers, ledgerVars, upstreamVars, engineVars, restVars>>

\* enforce_room cannot resolve the alias: error, return
EnforceRoomNoAlias(entitled) ==
    /\ Adapter = "matrix"
    /\ entitled # {}
    /\ LET r == MatrixRoom(entitled, config[1].cfg, roomMembers, FALSE, {})
       IN  /\ roomMembers' = r.room
           /\ rec' = [r.rec EXCEPT !.repeat = Repeats(entitled)]
    /\ UNCHANGED <<guildMembers, roleMembers, ledgerVars, upstreamVars, engineVars, restVars>>

NextReconcile ==
    \/ \E entitled \in SUBSET Users, failing \in Failing(DiscordIds) :
          SyncFanvueRoles(entitled, failing)
    \/ \E entitled \in SUBSET Users : SyncFanvueRolesNoRole(entitled)
    \/ \E entitled \in SUBSET Users, failing \in Failing(Mxids) :
          EnforceRoom(entitled, failing)
    \/ \E entitled \in SUBSET Users : EnforceRoomNoAlias(entitled)

SpecReconcile == ReconcileInit /\ [][NextReconcile]_vars

----------------------------------------------------------------------------
(* SpecOffersSeq, SpecOffers: check_upsell on the events of the gateway. *)

OffersOnlyInit ==
    /\ StoreInit
    /\ UpstreamIdle
    /\ EngineInit /\ config = <<>>
    /\ DestIdle
    /\ OffersInit /\ LinksInit /\ ClientInit /\ FetchIdle /\ PollIdle /\ TasksIdle /\ SideIdle

SpecOffersSeq == OffersOnlyInit /\ [][NextOffersSeq]_vars

SpecOffers == OffersOnlyInit /\ [][NextOffers]_vars

----------------------------------------------------------------------------
(* SpecLinks: one account linked and re-linked, its token asked for and
   refreshed, and the token of FanvueClient, while the clock moves on. Where
   the state of a callback came from is not followed here. *)

\* the fan who links
Linking == {"A"}

LinksOnlyInit ==
    /\ StoreInit
    /\ UpstreamIdle
    /\ EngineInit /\ config = <<>>
    /\ DestIdle
    /\ OffersInit /\ LinksInit /\ ClientInit /\ FetchIdle /\ PollIdle /\ TasksIdle /\ SideIdle

NextLinks ==
    \/ \E d \in Ticks : Tick(d)
    \/ \E u \in Linking, g \in Grants, userOk \in BOOLEAN, id \in LinkDiscordIds :
          ExchangeCode(generate_state(u, "n1"), g, userOk, id)
    \/ \E u \in Linking, g \in Grants : GetUserToken(u, g)
    \/ \E g \in Grants : ClientExchangeCode(g)
    \/ \E g \in Grants : ClientGetHeaders(g)

SpecLinks == LinksOnlyInit /\ [][NextLinks]_vars

----------------------------------------------------------------------------
(* SpecAutoJoin: linked fans joined to the guild cycle after cycle. The
   rows are the ones exchange_code wrote at time 0. *)

\* the account each fan linked
JoinId(u) == IF u = "A" THEN 1 ELSE 2

JoinRows(u) ==
    {NoRow} \cup
    {[linked |-> TRUE, discord_user_id |-> JoinId(u), access_token |-> "t1",
      refresh_token |-> rt, token_expiry |-> e, created_at |-> 0, updated_at |-> 0] :
        rt \in {NoToken, "r1"}, e \in {30, 660}}

\* every order a subset of the uuids can be iterated in
JoinOrders ==
    {<<>>} \cup {<<u>> : u \in LinkUuids}
    \cup {o \in LinkUuids \X LinkUuids : o[1] # o[2]}

\* the answers of the token endpoint during one cycle
JoinGrants ==
    {g \in Grants : ~g.ok \/ (g.refresh_token = Absent /\ g.expires_in = 660)}

\* the fans whose PUT the guild may answer with an error
PutFailing == {"B"}

AutoJoinInit ==
    /\ StoreInit
    /\ UpstreamIdle
    /\ EngineInit /\ config = <<>>
    /\ DestIdle
    /\ OffersInit /\ ClientInit /\ FetchIdle /\ PollIdle /\ TasksIdle /\ SideIdle
    /\ discord_tokens \in [LinkUuids -> UNION {JoinRows(u) : u \in LinkUuids}]
    /\ \A u \in LinkUuids : discord_tokens[u] \in JoinRows(u)
    /\ now = 0
    /\ oauth = [issued |-> {}, consumed |-> {}, last |-> NoOp]

NextAutoJoin ==
    \/ \E d \in Ticks : Tick(d)
    \/ \E u \in LinkUuids, g \in JoinGrants : GetUserToken(u, g)
    \/ \E order \in JoinOrders, grants \in [LinkUuids -> JoinGrants],
          putFails \in SUBSET PutFailing :
          AutoJoin(order, grants, putFails)

SpecAutoJoin == AutoJoinInit /\ [][NextAutoJoin]_vars

----------------------------------------------------------------------------
(* SpecLinkStates: link URLs handed out, and callbacks arriving with any
   state value. *)

\* the answers of the token endpoint to the code of a callback
CallbackGrants ==
    {g \in Grants : ~g.ok \/ (g.refresh_token = "r1" /\ g.expires_in = 660)}

\* the random parts os.urandom comes up with; the others are only guessed
UrandomNonces == {"n1"}

NextLinkStates ==
    \/ \E u \in LinkUuids, n \in UrandomNonces : GetAuthUrl(u, n)
    \/ \E state \in CallbackStates, g \in CallbackGrants, userOk \in BOOLEAN,
          id \in LinkDiscordIds :
          ExchangeCode(state, g, userOk, id)

SpecLinkStates == LinksOnlyInit /\ [][NextLinkStates]_vars

----------------------------------------------------------------------------
(* SpecIdentity: two fans linking and re-linking Discord accounts, and their
   tokens refreshed as time passes; the lookups of the table in both
   directions. *)

\* get_discord_id_for_fanvue: SELECT discord_user_id WHERE fanvue_uuid = ?
get_discord_id_for_fanvue(rows, fanvue_uuid) ==
    IF rows[fanvue_uuid].linked THEN rows[fanvue_uuid].discord_user_id ELSE 0

\* the first row of the table, whatever its account.
get_fanvue_id_for_discord_any_row(rows, discord_user_id) ==
    LET linked == {u \in LinkUuids : rows[u].linked}
    IN  IF linked = {} THEN {NoId} ELSE linked

\* get_fanvue_id_for_discord: SELECT fanvue_uuid WHERE discord_user_id = ?,
\* fetchone(): the answers the query can give (the column is not unique and
\* the query has no ORDER BY), None without a matching row
get_fanvue_id_for_discord(rows, discord_user_id) ==
    LET matching == {u \in LinkUuids :
                        rows[u].linked /\ rows[u].discord_user_id = discord_user_id}
    IN  IF matching = {} THEN {NoId} ELSE matching

\* the answers of the token endpoint: a token lasting 90 s, or an error
IdentityGrants ==
    {g \in Grants : ~g.ok \/ (g.refresh_token = "r1" /\ g.expires_in = 90)}

NextIdentity ==
    \/ \E d \in Ticks : Tick(d)
    \/ \E u \in LinkUuids, g \in IdentityGrants, userOk \in BOOLEAN,
          id \in LinkDiscordIds :
          ExchangeCode(generate_state(u, "n1"), g, userOk, id)
    \/ \E u \in LinkUuids, g \in IdentityGrants : GetUserToken(u, g)

SpecIdentity == LinksOnlyInit /\ [][NextIdentity]_vars

----------------------------------------------------------------------------
(* SpecCallers: get_user_token called for one linked fan by callers running
   side by side (threads, or processes sharing the table): each statement on
   the table and the request to the provider is a step of its own. *)

\* the fan the callers ask the token of
CalledUuid == "A"

\* the answers of the token endpoint to a refresh
CallerGrants ==
    {g \in Grants : ~g.ok \/ g.expires_in \in {30, 660}}

CallersInit ==
    /\ StoreInit
    /\ UpstreamIdle
    /\ EngineInit /\ config = <<>>
    /\ DestIdle
    /\ OffersInit /\ ClientInit /\ FetchIdle /\ PollIdle /\ TasksIdle /\ SideIdle
    /\ discord_tokens \in [LinkUuids -> UNION {JoinRows(u) : u \in LinkUuids}]
    /\ discord_tokens[CalledUuid] \in JoinRows(CalledUuid) \ {NoRow}
    /\ \A u \in LinkUuids \ {CalledUuid} : discord_tokens[u] = NoRow
    /\ now = 0
    /\ oauth = [issued |-> {}, consumed |-> {}, last |-> NoOp]

\* get_user_token: the SELECT of the row, and the test of its expiry; without
\* a refresh to make the stored token is returned
CallerRead(c) ==
    LET row == discord_tokens[CalledUuid]
    IN  /\ callers[c].pc = "idle"
        /\ callers' = [callers EXCEPT ![c] =
               IF ~row.linked THEN [NoCall EXCEPT !.pc = "done"]
               ELSE IF NeedsRefresh(now, row.token_expiry)
               THEN [NoCall EXCEPT !.pc = "refresh",
                                   !.discord_user_id = row.discord_user_id,
                                   !.access_token = row.access_token,
                                   !.refresh_token = row.refresh_token]
               ELSE [NoCall EXCEPT !.pc = "done", !.result = "token",
                                   !.discord_user_id = row.discord_user_id,
                                   !.access_token = row.access_token]]
        /\ UNCHANGED <<coreVars, loops, request, observed, offerVars, linkVars, fetch, poll>>

\* _refresh_user_token: the refresh token the caller read is posted to the
\* provider (grant is its answer); no refresh token, or an error answer, raises
CallerPost(c, grant) ==
    /\ callers[c].pc = "refresh"
    /\ callers' = [callers EXCEPT ![c] =
           IF callers[c].refresh_token = NoToken \/ ~grant.ok
           THEN [NoCall EXCEPT !.pc = "done", !.result = "raised"]
           ELSE [@ EXCEPT !.pc = "posted",
                          !.access_token = Mint(@),
                          !.grant_refresh_token =
                              IF grant.refresh_token = Absent
                              THEN callers[c].refresh_token ELSE grant.refresh_token,
                          !.expires_in = ExpiresIn(grant)]]
    /\ UNCHANGED <<coreVars, loops, request, observed, offerVars, linkVars, fetch, poll>>

\* _refresh_user_token: the row is written with the answer and the new access
\* token returned
CallerStore(c) ==
    /\ callers[c].pc = "posted"
    /\ discord_tokens' =
           IF discord_tokens[CalledUuid].linked
           THEN store_tokens(discord_tokens, CalledUuid,
                             discord_tokens[CalledUuid].discord_user_id,
                             callers[c].access_token, callers[c].grant_refresh_token,
                             callers[c].expires_in, now)
           ELSE discord_tokens
    /\ callers' = [callers EXCEPT ![c].pc = "done", ![c].result = "token"]
    /\ UNCHANGED <<coreVars, loops, request, observed, offerVars, now, client_token, oauth, fetch, poll>>

\* the caller has its answer, and may call again
CallerReturn(c) ==
    /\ callers[c].pc = "done"
    /\ callers' = [callers EXCEPT ![c] = NoCall]
    /\ UNCHANGED <<coreVars, loops, request, observed, offerVars, linkVars, fetch, poll>>

NextCallers ==
    \/ \E d \in Ticks : Tick(d)
    \/ \E c \in CallerIds : CallerRead(c)
    \/ \E c \in CallerIds, g \in CallerGrants : CallerPost(c, g)
    \/ \E c \in CallerIds : CallerStore(c)
    \/ \E c \in CallerIds : CallerReturn(c)

SpecCallers == CallersInit /\ [][NextCallers]_vars

----------------------------------------------------------------------------
(* SpecRelink: get_user_token called for a linked fan while the fan completes
   the callback again with another Discord account; each statement of the
   refresh on the table and its request to the provider is a step of its own,
   as in SpecCallers. *)

\* the answers of the token endpoint to a refresh and to the code of a link
RelinkGrants == {g \in Grants : g.ok /\ g.refresh_token = "r1" /\ g.expires_in = 660}

\* exchange_code for the called fan, authorised as Discord account id
Relink(grant, discord_user_id) ==
    ExchangeCode(generate_state(CalledUuid, "n1"), grant, TRUE, discord_user_id)

NextRelink ==
    \/ \E d \in Ticks : Tick(d)
    \/ \E c \in CallerIds : CallerRead(c)
    \/ \E c \in CallerIds, g \in RelinkGrants : CallerPost(c, g)
    \/ \E c \in CallerIds : CallerStore(c)
    \/ \E c \in CallerIds : CallerReturn(c)
    \/ \E g \in RelinkGrants, id \in LinkDiscordIds : Relink(g, id)

SpecRelink == CallersInit /\ [][NextRelink]_vars

----------------------------------------------------------------------------
(* SpecRequest: authenticated requests of FanvueClient._request against an
   upstream that answers with any status, as time passes. *)

\* the answers of the token endpoint: a token lasting 90 s or 660 s, or an error
RequestGrants ==
    {g \in Grants : ~g.ok \/ (g.refresh_token = "r1" /\ g.expires_in \in {90, 660})}

\* the statuses the upstream answers a request with
RequestStatuses == {200, 429, 500}

\* _get_headers: the token refreshed when within the margin, then the header
\* built from self.access_token
get_headers(token, grant, t) ==
    LET refresh == ClientNeedsRefresh(t, token.token_expiry)
        raised == refresh /\ (token.refresh_token = NoToken \/ ~grant.ok)
    IN  [raised |-> raised,
         token |-> IF refresh /\ ~raised
                   THEN update_tokens([access_token |-> Mint(token.access_token),
                                       refresh_token |-> grant.refresh_token,
                                       expires_in |-> grant.expires_in], t)
                   ELSE token]

\* _request up to its loop: kwargs["headers"].update(self._get_headers())
RequestBegin(grant) ==
    LET h == get_headers(client_token, grant, now)
    IN  /\ request.pc = "idle"
        /\ client_token.access_token # NoToken
        /\ client_token' = h.token
        /\ request' = IF h.raised THEN NoRequest
                      ELSE [NoRequest EXCEPT !.pc = "send",
                                             !.bearer = h.token.access_token,
                                             !.bearer_expiry = h.token.token_expiry]
        /\ UNCHANGED <<coreVars, loops, callers, observed, offerVars, discord_tokens, now, oauth,
                       fetch, poll>>

\* one turn of `while True`: requests.request(method, url, **kwargs) with the
\* headers built before the loop; a 429 sleeps retry_after + 1 and continues,
\* any other answer (or a Retry-After int() or sleep() refuses) is returned
RequestCall(status, h) ==
    LET again == status = 429 /\ RetryAfter(h).ok
    IN  /\ request.pc = "send"
        /\ again => /\ request.retries < MaxRetries
                    /\ now + RetryAfter(h).sleep <= MaxClock
        /\ request' = [request EXCEPT
               !.sent = TRUE, !.at = now,
               !.retries = IF again THEN @ + 1 ELSE @,
               !.pc = IF again THEN "send" ELSE "idle"]
        /\ now' = IF again THEN now + RetryAfter(h).sleep ELSE now
        /\ UNCHANGED <<coreVars, loops, callers, observed, offerVars, discord_tokens,
                       client_token, oauth, fetch, poll>>

\* _request blocks its caller: time passes otherwise, and the client is given
\* another token, between two requests only
BetweenRequests(d) == request.pc = "idle" /\ Tick(d)

AuthorizeBetweenRequests(grant) == request.pc = "idle" /\ ClientExchangeCode(grant)

NextRequest ==
    \/ \E d \in Ticks : BetweenRequests(d)
    \/ \E g \in RequestGrants : AuthorizeBetweenRequests(g)
    \/ \E g \in RequestGrants : RequestBegin(g)
    \/ \E status \in RequestStatuses, h \in RetryAfterHeaders : RequestCall(status, h)

SpecRequest == LinksOnlyInit /\ [][NextRequest]_vars

----------------------------------------------------------------------------
(* SpecFetch: get_subscribers called again and again against an upstream
   that answers each request with any status. *)

SpecFetch == LinksOnlyInit /\ [][NextFetch]_vars

----------------------------------------------------------------------------
(* SpecPaging: get_subscribers against an upstream that serves its pages and,
   at most MaxRetries times in a sequence, answers 429 instead. *)

NextPaging ==
    \/ GetSubscribers
    \/ \E hasMore \in BOOLEAN : Respond200(hasMore)
    \/ \E h \in RetryAfterHeaders : Respond429(h)

SpecPaging == LinksOnlyInit /\ [][NextPaging]_vars

----------------------------------------------------------------------------
(* SpecRuleFailures: compute_room_membership over two destinations while
   reads of get_fan_insights and of the list members fail. *)

\* the rule of a destination of SpecRuleFailures
FailureRules == {SpendingRule(5000), ListRule("custom", "l1"), SubscriptionRule(TRUE)}

\* spending.total.gross of a fan whose insights can be read
FailureGross(u) == IF u = "A" THEN 4000 ELSE IF u = "B" THEN 5000 ELSE 6000

RuleFailuresInit ==
    /\ StoreInit
    /\ subscribers \in SUBSET SubscriberPool
    /\ followers \in SUBSET FollowerPool
    /\ subTop = {} /\ follTop = {}
    /\ \E failing \in SUBSET Users :
          insights = [u \in Users |->
                        IF u \in failing THEN [status |-> "error", gross |-> 0]
                        ELSE [status |-> "ok", gross |-> FailureGross(u)]]
    /\ \E st \in {"ok", "error"} :
          lists = [k \in ListKeys |->
                     IF st = "ok" THEN [status |-> "ok", members |-> {"B", "C"}]
                     ELSE [status |-> "error", members |-> {}]]
    /\ EngineInit
    /\ \E r1 \in FailureRules, r2 \in FailureRules :
          config = <<[alias |-> "vip", cfg |-> RoomConfig("single", <<r1>>, Absent)],
                     [alias |-> "fans", cfg |-> RoomConfig("single", <<r2>>, Absent)]>>
    /\ DestIdle
    /\ RestIdle

\* runs whose ledger refresh and listings go through
NextRuleFailures ==
    \E evts \in RuleStreams : ComputeRoomMembership(evts, FALSE, FALSE)

SpecRuleFailures == RuleFailuresInit /\ [][NextRuleFailures]_vars

----------------------------------------------------------------------------
(* SpecSpendRuns: compute_room_membership run after run by one engine, for a
   destination with one spending rule, while the fans' lifetime spend moves
   upstream between the runs. *)

\* what GET /insights/fans/{uuid} answers for a fan: a spend below or above
\* the floor of the rule, or an error
SpendAnswers ==
    {[status |-> "ok", gross |-> 4000], [status |-> "ok", gross |-> 6000],
     [status |-> "error", gross |-> 0]}

SpendRunsInit ==
    /\ StoreInit
    /\ subscribers \in SUBSET SubscriberPool
    /\ followers = {} /\ subTop = {} /\ follTop = {}
    /\ insights \in [Users -> SpendAnswers]
    /\ insights["C"].status = "error"
    /\ lists = [k \in ListKeys |-> [status |-> "ok", members |-> {}]]
    /\ EngineInit
    /\ config = <<[alias |-> "vip",
                   cfg |-> RoomConfig("single", <<SpendingRule(5000)>>, Absent)]>>
    /\ DestIdle
    /\ RestIdle

\* between two runs: a fan spends, or the insights endpoint recovers or fails
SpendChanges(u, answer) ==
    /\ insights[u] # answer
    /\ insights' = [insights EXCEPT ![u] = answer]
    /\ UNCHANGED <<subscribers, subTop, followers, follTop, lists>>
    /\ UNCHANGED <<ledgerVars, engineVars, destVars, restVars>>

\* compute_room_membership, with the insights it ran against recorded
SpendRun ==
    LET s == sync_earnings(purchases, last_sync_date, <<>>, FALSE)
        r == EvalMembership(config, Snapshot(s.purchases), user_cache, list_cache,
                            FALSE)
    IN  /\ purchases' = s.purchases
        /\ last_sync_date' = s.last_sync_date
        /\ user_cache' = r.user_cache
        /\ list_cache' = r.list_cache
        /\ membership' = [status |-> r.status, mapping |-> r.mapping]
        /\ observed' = [observed EXCEPT !.insights = insights]
        /\ UNCHANGED <<pass, hist, config, upstreamVars, destVars, offerVars, linkVars,
                       fetch, poll, loops, callers, request>>

NextSpendRuns ==
    \/ SpendRun
    \/ \E u \in SubscriberPool, answer \in SpendAnswers : SpendChanges(u, answer)

SpecSpendRuns == SpendRunsInit /\ [][NextSpendRuns]_vars

----------------------------------------------------------------------------
(* SpecListRuns: compute_room_membership run after run by one engine, for two
   destinations that name the same custom list, while the members of the list
   change upstream between the runs. *)

\* what the listing of the list's members answers: its members, or an error
ListAnswers ==
    {[status |-> "ok", members |-> m] : m \in SUBSET {"B", "C"}}
    \cup {[status |-> "error", members |-> {}]}

\* the list both destinations name
RunListKey == ListKey("custom", "l1")

ListRunsInit ==
    /\ StoreInit
    /\ subscribers = {} /\ followers = {} /\ subTop = {} /\ follTop = {}
    /\ insights = [u \in Users |-> [status |-> "notfound", gross |-> 0]]
    /\ \E answer \in ListAnswers :
          lists = [k \in ListKeys |->
                     IF k = RunListKey THEN answer
                     ELSE [status |-> "ok", members |-> {}]]
    /\ EngineInit
    /\ config = <<[alias |-> "vip",
                   cfg |-> RoomConfig("single", <<ListRule("custom", "l1")>>, Absent)],
                  [alias |-> "fans",
                   cfg |-> RoomConfig("list", <<ListRule("custom", "l1")>>, Absent)]>>
    /\ DestIdle
    /\ RestIdle

\* between two runs: fans are put on the list or taken off, or the listing
\* recovers or fails
ListChanges(answer) ==
    /\ lists[RunListKey] # answer
    /\ lists' = [lists EXCEPT ![RunListKey] = answer]
    /\ UNCHANGED <<subscribers, subTop, followers, follTop, insights>>
    /\ UNCHANGED <<ledgerVars, engineVars, destVars, restVars>>

\* compute_room_membership, with the lists it ran against recorded
ListRun(evts) ==
    LET s == sync_earnings(purchases, last_sync_date, evts, FALSE)
        r == EvalMembership(config, Snapshot(s.purchases), user_cache, list_cache,
                            FALSE)
    IN  /\ purchases' = s.purchases
        /\ last_sync_date' = s.last_sync_date
        /\ user_cache' = r.user_cache
        /\ list_cache' = r.list_cache
        /\ membership' = [status |-> r.status, mapping |-> r.mapping]
        /\ observed' = [observed EXCEPT !.lists = lists]
        /\ UNCHANGED <<pass, hist, config, upstreamVars, destVars, offerVars, linkVars,
                       fetch, poll, loops, callers, request>>

NextListRuns ==
    \/ \E evts \in RuleStreams : ListRun(evts)
    \/ \E answer \in ListAnswers : ListChanges(answer)

SpecListRuns == ListRunsInit /\ [][NextListRuns]_vars

----------------------------------------------------------------------------
(* SpecPoll: DiscordBot.sync_loop, cycle after cycle, for a deployment with
   one role, no auto-join and no list_sync section. *)

PollInit ==
    /\ StoreInit
    /\ subscribers \in SUBSET SubscriberPool
    /\ followers = {} /\ subTop = {} /\ follTop = {}
    /\ insights = [u \in Users |-> [status |-> "notfound", gross |-> 0]]
    /\ lists = [k \in ListKeys |-> [status |-> "ok", members |-> {}]]
    /\ EngineInit
    /\ config = <<[alias |-> "vip",
                   cfg |-> RoomConfig("single", <<SubscriptionRule(TRUE)>>, Absent)]>>
    /\ guildMembers \in {g \in SUBSET DiscordIds : ServiceDiscordId \in g}
    /\ roleMembers \in SUBSET guildMembers
    /\ roomMembers = {}
    /\ rec = [kind |-> "none", adapter |-> "discord"]
    /\ RestIdle

\* on_ready: self.loop.create_task(self.sync_loop())
OnReady ==
    /\ poll.pc = "idle"
    /\ poll' = [pc |-> "compute"]
    /\ UNCHANGED <<coreVars, taskVars, offerVars, linkVars, fetch>>

\* sync_fanvue_roles up to the membership: compute_room_membership is called
\* outside every try, and sync_loop has none, so when it raises the exception
\* ends the task of sync_loop
PollCompute(evts, fails, listingFails) ==
    /\ poll.pc = "compute"
    /\ LET s == sync_earnings(purchases, last_sync_date, evts, fails)
           r == EvalMembership(config, Snapshot(s.purchases), user_cache, list_cache,
                               listingFails)
       IN  /\ purchases' = s.purchases
           /\ last_sync_date' = s.last_sync_date
           /\ user_cache' = r.user_cache
           /\ list_cache' = r.list_cache
           /\ membership' = [status |-> r.status, mapping |-> r.mapping]
           /\ poll' = [pc |-> IF r.status = "raised" THEN "dead" ELSE "roles"]
    /\ UNCHANGED <<pass, hist, config, upstreamVars, destVars, offerVars, linkVars, fetch,
                   taskVars>>

\* the rest of the cycle: the guild looked up, the block of every role of the
\* membership inside its own try, sync_list_roles (which returns at once
\* without a list_sync section), then asyncio.sleep(300)
PollRoles(guildFound, roleFound, failing) ==
    /\ poll.pc = "roles"
    /\ LET entitled == membership.mapping["vip"]
           target_ids == DiscordTargetIds(entitled)
       IN  IF ~guildFound \/ entitled = {}
           THEN /\ failing = {} /\ roleFound
                /\ UNCHANGED <<guildMembers, roleMembers, rec>>
           ELSE /\ failing \subseteq (target_ids \cup roleMembers) \cap guildMembers
                /\ roleFound \/ failing = {}
                /\ \E addOrder \in Orders(DiscordToAdd(target_ids, roleMembers)),
                      rmOrder \in Orders(DiscordToRemove(target_ids, roleMembers)) :
                      LET r == DiscordRole(entitled, config[1].cfg, guildMembers,
                                           roleMembers, roleFound,
                                           IF roleFound THEN addOrder ELSE <<>>,
                                           IF roleFound THEN rmOrder ELSE <<>>, failing)
                      IN  /\ guildMembers' = r.guild
                          /\ roleMembers' = r.role
                          /\ rec' = [r.rec EXCEPT !.repeat = Repeats(entitled)]
    /\ poll' = [pc |-> "sleeping"]
    /\ UNCHANGED <<roomMembers, ledgerVars, upstreamVars, engineVars, offerVars,
                   linkVars, fetch, taskVars>>

\* asyncio.sleep(300) returns; while not self.is_closed()
PollWake ==
    /\ poll.pc = "sleeping"
    /\ poll' = [pc |-> "compute"]
    /\ UNCHANGED <<coreVars, taskVars, offerVars, linkVars, fetch>>

NextPoll ==
    \/ OnReady
    \/ \E evts \in RuleStreams, fails \in BOOLEAN, listingFails \in BOOLEAN :
          PollCompute(evts, fails, listingFails)
    \/ \E guildFound \in BOOLEAN, roleFound \in BOOLEAN, failing \in Failing(DiscordIds) :
          PollRoles(guildFound, roleFound, failing)
    \/ PollWake

SpecPoll == PollInit /\ [][NextPoll]_vars

----------------------------------------------------------------------------
(* SpecConverge: the poll loop of SpecPoll in the quiet case: the upstream, the
   links and the guild do not change, every listing and every call succeeds.
   The event loop runs the task whenever it can take a step. *)

NextConverge ==
    \/ OnReady
    \/ \E evts \in RuleStreams : PollCompute(evts, FALSE, FALSE)
    \/ PollRoles(TRUE, TRUE, {})
    \/ PollWake

SpecConverge == PollInit /\ [][NextConverge]_vars /\ WF_vars(NextConverge)

----------------------------------------------------------------------------
(* SpecLinkedPoll: the poll loop of the Discord bot while fans complete the
   linking of their accounts at the callback server, which was started as its
   signature defaults have it (run_oauth_server(config, discord_oauth),
   address_book = None). No listing and no call fails. *)

\* the answer of the token endpoint to the code of a callback
LinkedGrant == [ok |-> TRUE, refresh_token |-> "r1", expires_in |-> 660]

\* handle_callback: exchange_code writes the row of the fan; without an
\* address book of its own the server adds the pair nowhere else, and the
\* lookup the bot loaded from discord_addressbook.yaml when it was built is
\* as it was
HandleCallback(fanvue_uuid, discord_user_id) ==
    ExchangeCode(generate_state(fanvue_uuid, "n1"), LinkedGrant, TRUE, discord_user_id)

\* the bot starts with every account in the guild and nobody holding the role
LinkedPollInit ==
    /\ PollInit
    /\ guildMembers = DiscordIds
    /\ roleMembers = {}

\* the steps of the sync_loop task; the earnings have nothing new
LinkedPollStep ==
    \/ OnReady
    \/ PollCompute(<<>>, FALSE, FALSE)
    \/ PollRoles(TRUE, TRUE, {})
    \/ PollWake

NextLinkedPoll ==
    \/ LinkedPollStep
    \/ \E u \in LinkUuids, d \in LinkDiscordIds : HandleCallback(u, d)

\* the event loop runs the task whenever it can take a step
SpecLinkedPoll == LinkedPollInit /\ [][NextLinkedPoll]_vars /\ WF_vars(LinkedPollStep)

----------------------------------------------------------------------------
(* SpecFailedFetch: the poll loop of the Discord bot for a role given by
   lifetime spend, while the read of a fan's insights answers or fails. No
   other call fails. *)

\* every fan has spent 6000 cents, above the floor of the role's rule;
\* GET /insights/fans/{uuid} answers it, or fails (the record keeps what the
\* read would have answered)
FailedFetchInit ==
    /\ StoreInit
    /\ subscribers \in SUBSET SubscriberPool
    /\ followers = {} /\ subTop = {} /\ follTop = {}
    /\ \E failing \in SUBSET Users :
          insights = [u \in Users |->
                        [status |-> IF u \in failing THEN "error" ELSE "ok",
                         gross |-> 6000]]
    /\ lists = [k \in ListKeys |-> [status |-> "ok", members |-> {}]]
    /\ EngineInit
    /\ config = <<[alias |-> "vip",
                   cfg |-> RoomConfig("single", <<SpendingRule(5000)>>, Absent)]>>
    /\ guildMembers = DiscordIds
    /\ roleMembers \in SUBSET (DiscordIds \ {ServiceDiscordId})
    /\ roomMembers = {}
    /\ rec = [kind |-> "none", adapter |-> "discord"]
    /\ RestIdle

NextFailedFetch ==
    \/ OnReady
    \/ \E evts \in RuleStreams : PollCompute(evts, FALSE, FALSE)
    \/ PollRoles(TRUE, TRUE, {})
    \/ PollWake

SpecFailedFetch == FailedFetchInit /\ [][NextFailedFetch]_vars

----------------------------------------------------------------------------
(* SpecRoomOrder: compute_room_membership over two destinations, either of
   which may be configured with an empty rule list. No read fails. *)

\* the rule lists a destination of SpecRoomOrder is configured with
OrderRuleLists == {<<>>, <<SubscriptionRule(TRUE)>>, <<TopSpenderRule>>}

RoomOrderInit ==
    /\ StoreInit
    /\ subscribers \in SUBSET SubscriberPool
    /\ followers \in SUBSET FollowerPool
    /\ subTop \in SUBSET subscribers
    /\ follTop = {}
    /\ insights = [u \in Users |-> [status |-> "notfound", gross |-> 0]]
    /\ lists = [k \in ListKeys |-> [status |-> "ok", members |-> {}]]
    /\ EngineInit
    /\ \E rl1 \in OrderRuleLists, rl2 \in OrderRuleLists, shape \in {"list", "dict_rules"} :
          config = <<[alias |-> "vip", cfg |-> RoomConfig(shape, rl1, Absent)],
                     [alias |-> "fans", cfg |-> RoomConfig(shape, rl2, Absent)]>>
    /\ DestIdle
    /\ RestIdle

\* runs whose ledger refresh and listings go through
NextRoomOrder ==
    \E evts \in RuleStreams : ComputeRoomMembership(evts, FALSE, FALSE)

SpecRoomOrder == RoomOrderInit /\ [][NextRoomOrder]_vars

----------------------------------------------------------------------------
(* SpecLoops: the sync_loop tasks that on_ready creates, for a deployment
   with one role under the remove_role policy, no auto-join and no list_sync
   section. A task gives way to the others at its awaits only. *)

\* on_ready: self.bg_task = self.loop.create_task(self.sync_loop()); nothing
\* looks at a task created before
LoopOnReady(t) ==
    /\ loops[t].pc = "none"
    /\ \A u \in LoopIds : u < t => loops[u].pc # "none"
    /\ loops' = [loops EXCEPT ![t].pc = "created"]
    /\ UNCHANGED <<coreVars, offerVars, linkVars, fetch, poll, sideVars>>

\* One turn of the while loop up to its first await: compute_room_membership
\* (no await inside), the diff of the role, then either the first add_roles /
\* remove_roles (awaited: the task is in the middle of its cycle), or, with no
\* call to make, on to asyncio.sleep(300).
LoopCompute(t, listingFails) ==
    /\ loops[t].pc \in {"created", "woken"}
    /\ LET s == sync_earnings(purchases, last_sync_date, <<>>, FALSE)
           r == EvalMembership(config, Snapshot(s.purchases), user_cache, list_cache,
                               listingFails)
           target_ids == DiscordTargetIds(r.mapping["vip"])
           to_add == IF r.mapping["vip"] = {} THEN {}
                     ELSE DiscordToAdd(target_ids, roleMembers)
           to_remove == IF r.mapping["vip"] = {} THEN {}
                        ELSE DiscordToRemove(target_ids, roleMembers)
       IN  /\ purchases' = s.purchases
           /\ last_sync_date' = s.last_sync_date
           /\ user_cache' = r.user_cache
           /\ list_cache' = r.list_cache
           /\ membership' = [status |-> r.status, mapping |-> r.mapping]
           /\ loops' = [loops EXCEPT ![t] =
                  IF r.status = "raised" THEN [NoLoop EXCEPT !.pc = "dead"]
                  ELSE IF (to_add \cup to_remove) \cap guildMembers = {}
                  THEN [NoLoop EXCEPT !.pc = "sleeping"]
                  ELSE [pc |-> "roles", to_add |-> to_add, to_remove |-> to_remove]]
    /\ UNCHANGED <<pass, hist, config, upstreamVars, destVars, offerVars, linkVars, fetch,
                   poll, sideVars>>

\* the calls of the role's block, made on the diff the task computed before
\* its first await, then sync_list_roles and asyncio.sleep(300)
LoopRoles(t, addOrder, rmOrder) ==
    /\ loops[t].pc = "roles"
    /\ addOrder \in Orders(loops[t].to_add)
    /\ rmOrder \in Orders(loops[t].to_remove)
    /\ LET st0 == [guild |-> guildMembers, role |-> roleMembers, grantCalls |-> {},
                   handled |-> {}, revokeCalls |-> {}, logs |-> {},
                   failedCalls |-> {}, aborted |-> FALSE]
           st1 == DiscordGrants(addOrder, st0, {})
           st2 == DiscordExpiries(rmOrder, st1, {},
                                  DiscordExpiryOp(ConfiguredExpiry(config[1].cfg,
                                                                   "remove_role")))
       IN  /\ guildMembers' = st2.guild
           /\ roleMembers' = st2.role
    /\ loops' = [loops EXCEPT ![t] = [NoLoop EXCEPT !.pc = "sleeping"]]
    /\ UNCHANGED <<roomMembers, rec, ledgerVars, upstreamVars, engineVars, offerVars,
                   linkVars, fetch, poll, sideVars>>

\* asyncio.sleep(300) returns; while not self.is_closed()
LoopWake(t) ==
    /\ loops[t].pc = "sleeping"
    /\ loops' = [loops EXCEPT ![t].pc = "woken"]
    /\ UNCHANGED <<coreVars, offerVars, linkVars, fetch, poll, sideVars>>

\* somebody outside the bot gives the role to a member or takes it away
RoleChangedOutside(uid) ==
    /\ uid \in guildMembers
    /\ roleMembers' = IF uid \in roleMembers THEN roleMembers \ {uid}
                      ELSE roleMembers \cup {uid}
    /\ UNCHANGED <<guildMembers, roomMembers, rec, ledgerVars, upstreamVars, engineVars,
                   restVars>>

NextLoops ==
    \/ \E t \in LoopIds : LoopOnReady(t)
    \/ \E t \in LoopIds, listingFails \in BOOLEAN : LoopCompute(t, listingFails)
    \/ \E t \in LoopIds :
          \E addOrder \in Orders(loops[t].to_add), rmOrder \in Orders(loops[t].to_remove) :
             LoopRoles(t, addOrder, rmOrder)
    \/ \E t \in LoopIds : LoopWake(t)
    \/ \E uid \in DiscordIds : RoleChangedOutside(uid)

SpecLoops == PollInit /\ [][NextLoops]_vars

----------------------------------------------------------------------------
(* Claims about the ledger, checked under SpecLedger. *)

\* C2: over any sequence of sync_earnings passes the stored cursor never
\* decreases, and a pass whose stream yields no event leaves it unchanged.
C2_CursorNeverDecreases ==
    [][ /\ last_sync_date' >= last_sync_date
        /\ (pass.pc = "syncing" /\ pass'.pc = "idle" /\ pass.seen = 0)
              => last_sync_date' = last_sync_date ]_vars

\* C2 witness: a completed pass saw only events older than the cursor, and the
\* cursor kept its value.
C2_Witness ==
    /\ pass.pc = "idle" /\ pass.outcome = "ok" /\ pass.count > 0
    /\ hist.passMax # NoDate /\ hist.passMax < pass.last_sync
    /\ last_sync_date = pass.last_sync

\* C3 as stated: between passes the cursor equals the maximum date of every
\* event the passes have observed (skipped events and aborted passes included).
C3_CursorIsMaxObserved ==
    pass.pc = "idle" => last_sync_date = hist.maxObserved

\* C3 amended: between passes the cursor equals the maximum date over the events
\* that carried both identifiers and were observed in a pass that ran to its end.
C3_CursorIsMaxCompleted ==
    pass.pc = "idle" => last_sync_date = hist.maxCompleted

\* C3 witness: an aborted pass has observed an event newer than the cursor that
\* an earlier completed pass wrote.
C3_Witness ==
    /\ pass.pc = "idle" /\ pass.outcome = "failed"
    /\ last_sync_date # NoDate
    /\ hist.maxObserved > last_sync_date
    /\ last_sync_date = hist.maxCompleted

\* C4: the ledger holds at most one row per (post_uuid, user_uuid), and no step
\* removes or changes a stored row (a second insert of a pair is a no-op).
C4_OneRowPerPairKept ==
    [][ /\ purchases \subseteq purchases'
        /\ \A r1, r2 \in purchases' :
              (r1.post_uuid = r2.post_uuid /\ r1.user_uuid = r2.user_uuid)
                 => r1 = r2 ]_vars

\* C4 witness: an insert met a stored row of its pair with another date, and the
\* ledger still holds that pair once.
C4_Witness ==
    /\ pass.ignored
    /\ \E r \in purchases :
          Cardinality({q \in purchases : q.post_uuid = r.post_uuid
                                         /\ q.user_uuid = r.user_uuid}) = 1

\* C5: a pass whose stream fails partway ends logged (not raised), leaves the
\* cursor at the value it had when the pass began, and keeps every row inserted
\* before the failure (and every older row).
C5_FailedPassKeepsCommitted ==
    [][ (pass.pc = "syncing" /\ pass'.pc = "idle" /\ pass'.outcome # "ok")
          => /\ pass'.outcome = "failed"
             /\ last_sync_date' = pass.last_sync
             /\ pass.inserted \subseteq purchases'
             /\ purchases \subseteq purchases' ]_vars

\* C5 witness: a failed pass had inserted a row and seen a date beyond the
\* cursor; the row is stored and the cursor is where the pass found it.
C5_Witness ==
    /\ pass.pc = "idle" /\ pass.outcome = "failed"
    /\ pass.inserted # {} /\ pass.inserted \subseteq purchases
    /\ pass.max_date > pass.last_sync
    /\ last_sync_date = pass.last_sync

----------------------------------------------------------------------------
(* Claims about the rule engine, checked under SpecRules. *)

\* C1: after a run that returned, every destination whose rule list holds
\* several rules has as its set the union of what each of its rules matches.
C1_RuleUnion ==
    membership.status = "ok" =>
        \A i \in 1..Len(config) :
            LET rl == RulesList(config[i].cfg)
            IN  Len(rl) > 1 =>
                   membership.mapping[config[i].alias]
                     = UNION {EvalRule(rl[k], Snapshot(purchases),
                                       user_cache, list_cache).matched :
                                 k \in 1..Len(rl)}

\* C22: after a run that returned, every Spending rule of a destination has
\* matched the fans of the subscriber + follower union whose lifetime gross
\* spend is at or above its floor, and a destination with that rule alone
\* holds exactly those fans.
C22_SpendingFloor ==
    membership.status = "ok" =>
        \A i \in DOMAIN config :
            LET rules_list == RulesList(config[i].cfg)
                got == membership.mapping[config[i].alias]
            IN  \A k \in DOMAIN rules_list :
                   rules_list[k].type = "spending" =>
                      LET floor == rules_list[k].min_lifetime_spend_cents
                          due == {u \in subscribers \cup followers :
                                     (IF insights[u].status = "ok"
                                      THEN insights[u].gross ELSE 0) >= floor}
                      IN  /\ due \subseteq got
                          /\ Len(rules_list) = 1 => got = due

\* C30: the ledger is refreshed before the rules are evaluated: after a run,
\* a destination with an unlock rule holds the buyers of the rule's content
\* the ledger records, the purchases the run itself read from the stream
\* included, and a destination whose only rule it is holds nobody else.
C30_UnlockMatchesLedger ==
    membership.status = "ok" =>
        \A i \in DOMAIN config :
            LET rules_list == RulesList(config[i].cfg)
                got == membership.mapping[config[i].alias]
            IN  \A k \in DOMAIN rules_list :
                   (rules_list[k].type = "unlock" /\ rules_list[k].content_id # NoId) =>
                      LET buyers == get_unlockers(purchases, rules_list[k].content_id)
                      IN  /\ buyers \subseteq got
                          /\ Len(rules_list) = 1 => got = buyers

----------------------------------------------------------------------------
(* Claims about the reconcilers, checked under SpecReconcile. *)

Reconciled == rec.kind # "none" /\ rec.resolved

\* C6: in every reconcile a grant is attempted on exactly target - actual and
\* the expiry policy is applied on exactly actual - target (a target account the
\* guild does not hold counts as attempted: it is looked up and has no member
\* to grant to).
C6_CallsAreTheDiff ==
    Reconciled =>
        /\ rec.toAdd = rec.target \ rec.actual
        /\ rec.toRemove = rec.actual \ rec.target
        /\ rec.grantCalls \cup rec.skipped = rec.toAdd
        /\ rec.handled = rec.toRemove

C9_ServiceNeverRevoked ==
    Reconciled =>
        \A c \in rec.revokeCalls :
            c[1] # (IF rec.kind = "discord" THEN ServiceDiscordId ELSE ServiceMxid)

\* C10: when a call of a reconcile fails, the calls for every other account of
\* toAdd and toRemove are still made (accounts the guild does not hold aside).
C10_FailureDoesNotBlock ==
    (Reconciled /\ rec.failedCalls # {}) =>
        /\ rec.grantCalls = rec.toAdd \ rec.skipped
        /\ rec.handled = rec.toRemove

----------------------------------------------------------------------------
(* Claims about the upsell offers, checked under SpecOffersSeq and SpecOffers. *)

\* C11: over any sequence of check_upsell invocations, run one after the other,
\* at most one offer message is sent per (user, sku) pair, also for a user who
\* was sent an offer for another sku before.
C11_OncePerPair ==
    \A k \in OfferUsers \X Skus : dms[k] <= 1

\* C12: of the check_upsell tasks in flight for one (user, sku) pair only the one
\* that wins the check-and-insert sends: no message is delivered for a pair
\* whose offer is already recorded.
C12_OnlyTheWinnerSends ==
    [][ \A u \in OfferUsers, sku \in Skus :
           dms'[<<u, sku>>] > dms[<<u, sku>>]
              => ~has_received_offer(sent_offers, u, sku) ]_vars

----------------------------------------------------------------------------
(* Claims about the account links, checked under SpecLinks, SpecAutoJoin and
   SpecLinkStates. *)

\* C13: get_user_token and FanvueClient._get_headers ask for a refresh exactly
\* when now > expiry - 60 seconds; the token handed back after a refresh is
\* the new one, now stored; without a refresh the stored token is handed back
\* and nothing is written.
C13_RefreshWithinMargin ==
    /\ (oauth.last.op = "get_user_token" /\ oauth.last.before.linked) =>
          LET b == oauth.last.before
              row == discord_tokens[oauth.last.uuid]
          IN  /\ oauth.last.refreshed <=> now > b.token_expiry - 60
              /\ (oauth.last.refreshed /\ oauth.last.result = "token") =>
                    /\ oauth.last.access_token = row.access_token
                    /\ oauth.last.access_token # b.access_token
                    /\ row.updated_at = now
              /\ ~oauth.last.refreshed =>
                    /\ oauth.last.result = "token"
                    /\ oauth.last.access_token = b.access_token
                    /\ row = b
    /\ oauth.last.op = "get_headers" =>
          LET b == oauth.last.before
          IN  /\ oauth.last.refreshed <=> now > b.token_expiry - 60
              /\ (oauth.last.refreshed /\ oauth.last.result = "headers") =>
                    /\ oauth.last.access_token = client_token.access_token
                    /\ oauth.last.access_token # b.access_token
              /\ ~oauth.last.refreshed =>
                    /\ oauth.last.result = "headers"
                    /\ oauth.last.access_token = b.access_token
                    /\ client_token = b

\* a token with 30 seconds left was refreshed and the new one handed back
C13_Witness ==
    /\ oauth.last.op = "get_user_token"
    /\ oauth.last.before.linked
    /\ oauth.last.before.token_expiry - now = 30
    /\ oauth.last.refreshed
    /\ oauth.last.result = "token"

\* a token with 10 minutes left was handed back as stored
C13_TenMinutesLeft ==
    /\ oauth.last.op = "get_user_token"
    /\ oauth.last.before.linked
    /\ oauth.last.before.token_expiry - now = 600
    /\ ~oauth.last.refreshed

\* the same two cases of FanvueClient._get_headers
C13_ClientCases ==
    /\ oauth.last.op = "get_headers"
    /\ oauth.last.before.token_expiry - now \in {30, 600}
    /\ oauth.last.result = "headers"

\* the refresh asked for fan u in the last auto-join could not succeed:
\* no refresh token stored, or the provider rejected it
C14_RefreshFails(u) ==
    LET b == oauth.last.before[u]
    IN  /\ b.linked
        /\ now > b.token_expiry - 60
        /\ (b.refresh_token = NoToken \/ ~oauth.last.granted[u])

\* C14: when the refresh of a fan's token fails, get_user_token raises and
\* hands back no token, the stored row stays as it was, and the auto-join loop
\* visits every fan of the cycle once, in order: the failing fan is not joined
\* and the fans after it are still processed.
C14_FailedRefreshSkipsUser ==
    /\ (/\ oauth.last.op = "get_user_token"
        /\ oauth.last.before.linked
        /\ oauth.last.refreshed
        /\ (oauth.last.before.refresh_token = NoToken \/ ~oauth.last.granted)) =>
          /\ oauth.last.result = "raised"
          /\ oauth.last.access_token = NoToken
          /\ discord_tokens[oauth.last.uuid] = oauth.last.before
    /\ oauth.last.op = "auto_join" =>
          /\ oauth.last.visited = oauth.last.order
          /\ \A i \in 1..Len(oauth.last.order) :
                LET u == oauth.last.order[i]
                    b == oauth.last.before[u]
                IN  /\ C14_RefreshFails(u) =>
                          /\ oauth.last.outcome[u] = "token_raised"
                          /\ discord_tokens[u] = b
                          /\ b.discord_user_id \in guildMembers
                                => b.discord_user_id \in oauth.last.guild
                    /\ (b.linked /\ ~C14_RefreshFails(u) /\ u \notin oauth.last.putFails) =>
                          /\ oauth.last.outcome[u] \in {"joined", "already"}
                          /\ b.discord_user_id \in guildMembers

\* the first fan of a cycle failed to refresh and the second one was joined
C14_Witness ==
    /\ oauth.last.op = "auto_join"
    /\ Len(oauth.last.order) = 2
    /\ C14_RefreshFails(oauth.last.order[1])
    /\ oauth.last.outcome[oauth.last.order[2]] = "joined"

\* C15: exchange_code writes a row only for a state that get_auth_url handed
\* out and that no earlier exchange_code has used.
C15_StateConsumedOnce ==
    (oauth.last.op = "exchange_code" /\ oauth.last.result = "stored") =>
        (oauth.last.issued /\ ~oauth.last.used)

\* C16: exchange_code and the refresh of get_user_token never change the
\* created_at of a row that exists; a row does not disappear.
C16_CreatedAtKept ==
    [][ \A u \in LinkUuids :
           discord_tokens[u].linked =>
              /\ discord_tokens'[u].linked
              /\ discord_tokens'[u].created_at = discord_tokens[u].created_at ]_vars

\* a re-link at a later time changed the account, the tokens, the expiry and
\* updated_at of a row whose created_at is the time of the first link
C16_Witness ==
    /\ oauth.last.op = "exchange_code" /\ oauth.last.result = "stored"
    /\ discord_tokens["A"].created_at = 0
    /\ discord_tokens["A"].updated_at = 60
    /\ discord_tokens["A"].discord_user_id = 2

\* a refresh at a later time wrote the row
C16_RefreshWrote ==
    /\ oauth.last.op = "get_user_token" /\ oauth.last.refreshed
    /\ oauth.last.result = "token"
    /\ discord_tokens["A"].created_at < discord_tokens["A"].updated_at

----------------------------------------------------------------------------
(* Claims about the fetcher, checked under SpecFetch. *)

\* C17: a call of get_subscribers never raises on a 429 answer.
C17_RateLimitNeverSurfaced ==
    (fetch.pc = "raised" /\ fetch.log # <<>>) =>
        fetch.log[Len(fetch.log)].status # 429

\* C18: the request of page k answered with a status other than 2xx and 429 is
\* the last request of the call (the log of the call holds nothing after it):
\* the call has raised, and the items yielded are those of the pages
\* 1 .. k-1, each once and in order.
C18_ErrorAbortsSequence ==
    \A i \in DOMAIN fetch.log :
        fetch.log[i].status \notin {200, 429} =>
           /\ i = Len(fetch.log)
           /\ fetch.pc = "raised"
           /\ fetch.yielded = [p \in 1..(fetch.log[i].page - 1) |-> p]

\* page 1 was yielded, page 2 was answered with a 500 and the call raised
C18_Witness ==
    /\ fetch.pc = "raised"
    /\ fetch.log # <<>>
    /\ fetch.log[Len(fetch.log)] = Entry(2, 500)
    /\ fetch.yielded = <<1>>

----------------------------------------------------------------------------
(* Claims about failing reads in the rule engine, checked under
   SpecRuleFailures. *)

\* what the rule of a destination matches when a failed read counts as no
\* data: a fan whose insights cannot be read has spent 0, a list that cannot
\* be read has no members
C19_Matches(rule) ==
    IF rule.type = "spending"
    THEN {u \in subscribers \cup followers :
             (IF insights[u].status = "ok" THEN insights[u].gross ELSE 0)
                 >= rule.min_lifetime_spend_cents}
    ELSE IF rule.type = "fanvue_list"
    THEN LET l == lists[ListKey(rule.list_type, rule.list_uuid)]
         IN  IF l.status = "ok" THEN l.members ELSE {}
    ELSE subscribers

----------------------------------------------------------------------------
(* Claims about the poll loop, checked under SpecPoll. *)

\* C20: no error of a poll cycle ends the task of sync_loop: the loop always
\* reaches its sleep and the next cycle.
C20_PollNeverStops == poll.pc # "dead"

----------------------------------------------------------------------------
(* Claims about the tasks of the event loop, checked under SpecLoops. *)

\* C21: at most one sync_loop task exists, and so at most one task is in the
\* middle of a reconciliation cycle.
C21_OneCycleAtATime ==
    /\ Cardinality({t \in LoopIds : loops[t].pc \notin {"none", "dead"}}) <= 1
    /\ Cardinality({t \in LoopIds : loops[t].pc = "roles"}) <= 1

----------------------------------------------------------------------------
(* Claims about the poll loop in the quiet case, checked under SpecConverge. *)

\* C23: with nothing changing and every call succeeding, the holders of the
\* role are from some cycle on the guild members the entitled fans resolve to
\* (the service's own account is left out of the comparison).
C23_Converges ==
    <>[](roleMembers \ {ServiceDiscordId}
            = (DiscordTargetIds(subscribers) \cap guildMembers) \ {ServiceDiscordId})

----------------------------------------------------------------------------
(* Claims about the identity store, checked under SpecIdentity. *)

\* C24: every linked fan has one Discord account in the table, the one of the
\* latest completed link, which a refresh keeps; the forward lookup returns it,
\* and the reverse lookup of an account returns a fan whose forward lookup is
\* that account, or nothing when no row holds the account.
C24_LookupsAgree ==
    /\ \A u \in LinkUuids :
          discord_tokens[u].linked =>
              get_discord_id_for_fanvue(discord_tokens, u) \in LinkDiscordIds
    /\ (oauth.last.op = "exchange_code" /\ oauth.last.result = "stored") =>
          get_discord_id_for_fanvue(discord_tokens, oauth.last.uuid)
              = oauth.last.discord_user_id
    /\ (oauth.last.op = "get_user_token" /\ oauth.last.before.linked) =>
          get_discord_id_for_fanvue(discord_tokens, oauth.last.uuid)
              = oauth.last.before.discord_user_id
    /\ \A d \in LinkDiscordIds :
          \A r \in get_fanvue_id_for_discord(discord_tokens, d) :
              IF r = NoId
              THEN \A u \in LinkUuids :
                      get_discord_id_for_fanvue(discord_tokens, u) # d
              ELSE get_discord_id_for_fanvue(discord_tokens, r) = d

\* both fans linked, to different accounts, one of them re-linked to another
\* account than before and then refreshed
C24_Witness ==
    /\ discord_tokens["A"].linked /\ discord_tokens["B"].linked
    /\ discord_tokens["A"].discord_user_id # discord_tokens["B"].discord_user_id
    /\ oauth.last.op = "get_user_token" /\ oauth.last.refreshed
    /\ oauth.last.result = "token"
    /\ discord_tokens["A"].updated_at > discord_tokens["A"].created_at

\* two fans linked to the same account: the reverse lookup may answer either
C24_SharedAccount ==
    /\ discord_tokens["A"].linked /\ discord_tokens["B"].linked
    /\ discord_tokens["A"].discord_user_id = discord_tokens["B"].discord_user_id

----------------------------------------------------------------------------
(* Claims about concurrent callers of get_user_token, checked under
   SpecCallers. *)

\* C25: two callers refreshing the token of one fan side by side never both
\* post the same refresh token to the provider.
C25_RefreshTokenPostedOnce ==
    \A c1, c2 \in CallerIds :
        (c1 # c2 /\ callers[c1].pc = "posted" /\ callers[c2].pc = "posted") =>
            callers[c1].refresh_token # callers[c2].refresh_token

----------------------------------------------------------------------------
(* Claims about the bearer header of a request, checked under SpecRequest. *)

\* C26: a request sent upstream, the re-issue after a 429 sleep included,
\* carries a token that is more than the margin away from its expiry at the
\* moment it is sent.
C26_BearerFreshAtEachCall ==
    request.sent => ~ClientNeedsRefresh(request.at, request.bearer_expiry)

----------------------------------------------------------------------------
(* Claims about the insight cache across runs, checked under SpecSpendRuns. *)

\* C27: every run of compute_room_membership reads the fans' insights anew:
\* the fans it matched with the spending rule include the listed fans whose
\* spend, as upstream reported it when the run was made, reached the floor.
C27_RunReadsInsightsAnew ==
    membership.status = "ok" =>
        LET floor == RulesList(config[1].cfg)[1].min_lifetime_spend_cents
        IN  \A u \in subscribers \cup followers :
               (observed.insights[u].status = "ok"
                   /\ observed.insights[u].gross >= floor)
                   => u \in membership.mapping["vip"]

----------------------------------------------------------------------------
(* Claims about malformed states, checked under SpecLinkStates. *)

\* C28: a callback whose state cannot be decoded, or decodes to text that is
\* not a uuid followed by a nonce, is refused by exchange_code and writes no
\* row.
C28_MalformedStateRefused ==
    (/\ oauth.last.op = "exchange_code"
     /\ (~oauth.last.state.b64 \/ Len(oauth.last.state.text) # 2))
        => oauth.last.result = "raised"

----------------------------------------------------------------------------
(* Claims about the expiry policy, checked under SpecReconcile. *)

\* C29: in a run that reached the destination, every account of toRemove gets
\* the action of the policy configured for the destination: under ignore a log
\* entry and no call, under kick the call that removes the account from the
\* destination, and otherwise the call that takes the role away and leaves
\* the account in the guild.
C29_ExpiryFollowsPolicy ==
    (rec.kind # "none" /\ rec.resolved) =>
        \A uid \in rec.toRemove :
            LET calls == {c \in rec.revokeCalls : c[1] = uid}
            IN  IF rec.action = "ignore"
                THEN uid \in rec.logs /\ calls = {}
                ELSE IF rec.action = "kick"
                THEN calls = {<<uid, "kick">>}
                ELSE /\ calls = {<<uid, "remove_roles">>}
                     /\ uid \in guildMembers

----------------------------------------------------------------------------
(* Claims about the list cache across runs, checked under SpecListRuns. *)

\* C31: after a run, a destination whose one rule names a list holds exactly
\* the members the list had upstream when the run was made (both destinations
\* naming the list hold the same fans).
C31_ListRuleMatchesCurrentMembers ==
    (membership.status = "ok" /\ observed.lists[RunListKey].status = "ok") =>
        \A i \in DOMAIN config :
            membership.mapping[config[i].alias] = observed.lists[RunListKey].members

----------------------------------------------------------------------------
(* Claims about the rows of sent_offers, checked under SpecOffersSeq. *)

\* C32: offers are recorded per (user, sku): every pair record_offer was called
\* for (its message was delivered) is a pair has_received_offer answers true
\* for from then on, whatever other sku the user was recorded with before.
C32_RecordedPerPair ==
    \A u \in OfferUsers, sku \in Skus :
        dms[<<u, sku>>] > 0 => has_received_offer(sent_offers, u, sku)

----------------------------------------------------------------------------
(* Claims about a paged sequence that is only ever answered 200 or 429,
   checked under SpecPaging. *)

\* C33: with an upstream that serves finitely many pages and answers 429 only
\* finitely often, the sequence never ends by raising, and once it has ended
\* it has yielded the pages 1, 2, ... up to the last, each once, in order.
C33_EveryPageOnceInOrder ==
    /\ fetch.pc # "raised"
    /\ fetch.pc = "done" => fetch.yielded = [i \in 1..fetch.page |-> i]

----------------------------------------------------------------------------
(* Claims about links completed while the bot runs, checked under
   SpecLinkedPoll. *)

\* C34: once a fan is linked to an account, is entitled and the account is a
\* member of the guild, a later cycle grants the account the role (unless the
\* fan stops being linked to it, or entitled, before).
C34_LinkedFanGranted ==
    \A u \in LinkUuids, d \in LinkDiscordIds :
        LET due == /\ discord_tokens[u].linked
                   /\ discord_tokens[u].discord_user_id = d
                   /\ u \in subscribers
                   /\ d \in guildMembers
        IN  due ~> (d \in roleMembers \/ ~due)

----------------------------------------------------------------------------
(* Claims about inserts that fail locally, checked under SpecLedger. *)

\* C35: after every pass, each event of both identifiers the pass observed that
\* is dated at or before the stored cursor has its pair in the ledger, also
\* when its INSERT hit a local store error. (An event whose INSERT did not fail
\* has its pair in the ledger from then on, so the events of hist.failed are
\* the ones to look at.)
C35_CursorCoversOnlyStoredEvents ==
    pass.pc = "idle" =>
        \A e \in hist.failed :
            (last_sync_date # NoDate /\ e.purchase_date <= last_sync_date) =>
                \E r \in purchases : /\ r.post_uuid = e.post_uuid
                                     /\ r.user_uuid = e.user_uuid

----------------------------------------------------------------------------
(* Claims about reads that fail, checked under SpecFailedFetch. *)

\* C36: in a cycle where the read of a fan's insights failed, no account of
\* that fan loses the role in the role block.
C36_FailedFetchRevokesNobody ==
    [][poll.pc = "roles" =>
          \A u \in subscribers :
              insights[u].status = "error" =>
                  \A d \in DiscordTargetIds({u}) :
                      d \in roleMembers => d \in roleMembers']_vars

----------------------------------------------------------------------------
(* Claims about the keys of the mapping, checked under SpecRules. *)

\* C37: the mapping a run returns has an entry for every configured
\* destination (the empty set when no fan matches).
C37_EntryForEveryDestination ==
    membership.status = "ok" =>
        \A i \in DOMAIN config : config[i].alias \in MappingKeys(membership.mapping)

----------------------------------------------------------------------------
(* Claims about the order of the destinations, checked under SpecRoomOrder. *)

\* what the rules of the destination alone give it: nobody when it has no
\* rule, else the result of a run over a configuration holding only it
OwnEntitled(room) ==
    IF Len(RulesList(room.cfg)) = 0
    THEN {}
    ELSE EvalMembership(<<room>>, Snapshot(purchases), user_cache, list_cache,
                        FALSE).mapping[room.alias]

\* C38: a run in which no read fails raises no error, and gives every
\* destination the set its own rules give it: nobody to a destination with an
\* empty rule list, whatever the destinations before it are configured with.
C38_OwnRulesOnly ==
    membership.status # "none" =>
        /\ membership.status = "ok"
        /\ \A i \in DOMAIN config :
              membership.mapping[config[i].alias] = OwnEntitled(config[i])

----------------------------------------------------------------------------
(* Claims about the pairing of fans and accounts, checked under SpecIdentity. *)

\* C39: no two fans are linked to the same Discord account, so the reverse
\* lookup of a linked fan's account answers that fan and no other.
C39_LinksOneToOne ==
    \A u \in LinkUuids :
        discord_tokens[u].linked =>
            get_fanvue_id_for_discord(discord_tokens,
                                      get_discord_id_for_fanvue(discord_tokens, u)) = {u}

----------------------------------------------------------------------------
(* Claims about a refresh running beside a new link, checked under
   SpecRelink. *)

\* C40: the tokens a refresh writes into the row were issued for the account
\* the row holds: the provider issued them for the account whose refresh token
\* the caller read and posted, so the row the caller writes holds that account.
C40_RefreshKeepsRowConsistent ==
    [][\A c \in CallerIds :
          (callers[c].pc = "posted" /\ callers'[c].pc = "done"
              /\ discord_tokens'[CalledUuid].linked
              /\ discord_tokens'[CalledUuid].access_token = callers[c].access_token) =>
                 discord_tokens'[CalledUuid].discord_user_id
                     = callers[c].discord_user_id]_vars
====
